---- MODULE Spec2Model ----
(***************************************************************************)
(* A model of src/vs/workbench/contrib/comments/browser/                   *)
(* commentsController.ts: the CommentingRangeDecorator (range tiling,      *)
(* hit test, nearest range) and the CommentController (thread widgets,     *)
(* draft caches, add queue, thread-update batches).                        *)
(*                                                                         *)
(* Ranges are modelled by line: a range is [s |-> startLine, e |-> endLine]*)
(* with s <= e. Columns are left out: every decoration the decorator       *)
(* creates reports column 1 (CommentingRangeDecoration.range, l.65-70) and *)
(* every test in the decorator is on line numbers.                         *)
(*                                                                         *)
(* The controller is modelled with an editor that has a document open.     *)
(* Its handlers run to completion; a handler that awaits _computePromise   *)
(* continues right after the promise's own callback.  Left out are the     *)
(* parts that neither read nor write the widgets, the caches, the queue or *)
(* the claims: the reserved gutter space, the editor listeners, the thread *)
(* range decorator, the comments view and the aria status.                 *)
(***************************************************************************)
EXTENDS Integers, Sequences, FiniteSets, TLC

VARIABLES
    \* One run of the forEach body of _doUpdate on one provider range
    tRange,          \* the provider range
    tEmphasis,       \* emphasisLine after l.173
    tSelection,      \* selectionRange (NoRange: undefined)
    tGlyphs,         \* the lines that host a comment-thread glyph
    tOut,            \* the decorations pushed for the range
    tDone,           \* the body has run
    \* CommentingRangeDecorator
    infos,                       \* _infos (<<>> while undefined)
    lastHover,                   \* _lastHover
    lastSelection,               \* _lastSelection (NoRange: undefined)
    lastSelectionCursor,         \* _lastSelectionCursor (NoCursor: undefined)
    commentingRangeDecorations,  \* commentingRangeDecorations
    glyphLines,                  \* the lines that host a comment-thread glyph
    \* CommentController
    commentWidgets,              \* _commentWidgets
    commentInfos,                \* _commentInfos
    pendingNewCommentCache,      \* _pendingNewCommentCache (NoText: no entry)
    pendingEditsCache,           \* _pendingEditsCache (NoText: no entry)
    continueOnComments,          \* the comment service's continue-on drafts
    commentingEnabled,           \* commentService.isCommentingEnabled
    inlineOriginal,              \* what isEditorInlineOriginal(editor) returns
    computePromise,              \* _computePromise (0: null)
    fetches,                     \* the getDocumentComments calls of beginCompute in flight
    suspended,                   \* thread-update handlers waiting at "await this._computePromise"
    ready,                       \* their continuations, due to run before the next event
    addInProgress,               \* _addInProgress
    emptyThreadsToAddQueue,      \* _emptyThreadsToAddQueue
    templateRequests,            \* createCommentThreadTemplate calls not answered yet
    contextMenu,                 \* the context menu shown by addCommentAtLine (NoMenu: none)
    quickPick,                   \* the quick pick shown by addCommentAtLine (NoMenu: none)
    addError,                    \* the last add request ended with the thrown error
    lastAdd,                     \* history: what the last add handler did
    rangeDelayer,                \* _computeCommentingRangeScheduler: the triggers that wait
                                 \* for its delay to elapse (0: no delay is running)
    rangeFetches,                \* the getDocumentComments calls of the scheduler in
                                 \* flight, in the order they were started
    outdated,                    \* history: the fetches of beginCompute in flight that
                                 \* were started for a document the editor has left
    lastEvent,                   \* history: what the last handler did
    recordEvents,                \* outdated and lastEvent are kept (a specification whose
                                 \* claims do not read them starts with FALSE)
    torn,                        \* history: per thread, the unsent text of the widget that
                                 \* removeCommentWidgetsAndStoreCache last tore down
    lastBatch,                   \* history: the batch the last step processed
    destroyed,                   \* history: per thread, the widget the last step destroyed
    editorDisposables            \* held: the sets of editor listeners in _editorDisposables
                                 \* (0 or 1); attached: the sets attached to the editor
                                 \* and not disposed

tileVars == <<tRange, tEmphasis, tSelection, tGlyphs, tOut, tDone>>

decoratorVars == <<infos, lastHover, lastSelection, lastSelectionCursor,
                   commentingRangeDecorations, glyphLines>>

widgetVars == <<commentWidgets, commentInfos, pendingNewCommentCache, pendingEditsCache,
                continueOnComments, commentingEnabled, inlineOriginal, torn, lastBatch,
                destroyed>>

computeVars == <<computePromise, fetches, suspended, ready>>

addVars == <<addInProgress, emptyThreadsToAddQueue, templateRequests, contextMenu, quickPick,
             addError, lastAdd>>

rangeVars == <<rangeDelayer, rangeFetches>>

historyVars == <<outdated, lastEvent, recordEvents>>

listenerVars == <<editorDisposables>>

controllerVars == <<widgetVars, computeVars, addVars, rangeVars, historyVars, listenerVars>>

vars == <<tileVars, decoratorVars, controllerVars>>

\* ------------------------------------------------------------------------
\* Bounds
\* ------------------------------------------------------------------------
\* Lines of the document are 1..MaxLine.
MaxLine == 4

Lines == 1..MaxLine

\* The document has one line more than the providers' ranges reach.
DocLines == 1..(MaxLine + 1)

Min(a, b) == IF a < b THEN a ELSE b

Max(a, b) == IF a > b THEN a ELSE b

\* ------------------------------------------------------------------------
\* Range (vs/editor/common/core/range, used by the decorator)
\* ------------------------------------------------------------------------
\* The value of an absent range (undefined / null).
NoRange == [s |-> -1, e |-> -1]

\* new Range(startLine, 1, endLine, 1): the constructor orders its two ends.
MkRange(a, b) == IF a > b THEN [s |-> b, e |-> a] ELSE [s |-> a, e |-> b]

\* a.intersectRanges(b), by line: null when the ranges share no line.
intersectRanges(a, b) ==
    IF Max(a.s, b.s) > Min(a.e, b.e) THEN NoRange
    ELSE [s |-> Max(a.s, b.s), e |-> Min(a.e, b.e)]

\* The lines a range covers.
LinesOf(r) == {l \in -1..(MaxLine + 2) : r.s <= l /\ l <= r.e}

\* All ranges over the lines lo..hi.
RangesIn(lo, hi) == {[s |-> a, e |-> b] : a \in lo..hi, b \in lo..hi} \ {r \in [s : lo..hi, e : lo..hi] : r.s > r.e}

\* ------------------------------------------------------------------------
\* CommentingRangeDecorator
\* ------------------------------------------------------------------------
\* The three decoration options.
Plain == "plain"

Hover == "hover"

Multiline == "multiline"

\* new CommentingRangeDecoration(editor, info.owner, .., range, options,
\* info.commentingRanges, isHover). info is the identity of the
\* commentingRangesInfo object, of is the index of the provider range the
\* decoration was split from.
Decoration(owner, info, of, r, options) ==
    [owner |-> owner, info |-> info, of |-> of, s |-> r.s, e |-> r.e, options |-> options]

DecRange(d) == [s |-> d.s, e |-> d.e]

\* A mutation of lineHasThread: the thread glyph is never seen.
lineHasThreadNever(glyphs, lineRange) == FALSE

\* _lineHasThread(editor, lineRange): a decoration of CommentGlyphWidget lies
\* in lineRange.
lineHasThread(glyphs, lineRange) ==
    \E l \in glyphs : lineRange.s <= l /\ l <= lineRange.e

\* The body of the forEach of _doUpdate for one provider range.
doUpdateRange(owner, info, of, range, emphasisLine, selectionRange, glyphs) ==
    LET isel == IF selectionRange # NoRange THEN intersectRanges(range, selectionRange) ELSE NoRange
    IN  IF /\ selectionRange # NoRange
           /\ emphasisLine >= 0
           /\ isel # NoRange
           /\ ~(isel.s = isel.e /\ emphasisLine = isel.s)
        THEN
          LET atStart == emphasisLine <= isel.s
              intersectingEmphasisRange ==
                  IF atStart THEN MkRange(isel.s, isel.s) ELSE MkRange(isel.e, isel.e)
              intersectingSelectionRange ==
                  IF atStart THEN MkRange(isel.s + 1, isel.e) ELSE MkRange(isel.s, isel.e - 1)
              beforeRangeEndLine ==
                  Min(intersectingEmphasisRange.s, intersectingSelectionRange.s) - 1
              hasBeforeRange == range.s <= beforeRangeEndLine
              afterRangeStartLine ==
                  Max(intersectingEmphasisRange.e, intersectingSelectionRange.e) + 1
              hasAfterRange == range.e >= afterRangeStartLine
          IN  <<Decoration(owner, info, of, intersectingSelectionRange, Multiline)>>
              \o (IF ~lineHasThread(glyphs, intersectingEmphasisRange)
                  THEN <<Decoration(owner, info, of, intersectingEmphasisRange, Hover)>>
                  ELSE <<>>)
              \o (IF hasBeforeRange
                  THEN <<Decoration(owner, info, of, MkRange(range.s, beforeRangeEndLine), Plain)>>
                  ELSE <<>>)
              \o (IF hasAfterRange
                  THEN <<Decoration(owner, info, of, MkRange(afterRangeStartLine, range.e), Plain)>>
                  ELSE <<>>)
        ELSE IF range.s <= emphasisLine /\ emphasisLine <= range.e
        THEN
          (IF range.s < emphasisLine
           THEN <<Decoration(owner, info, of, MkRange(range.s, emphasisLine - 1), Plain)>>
           ELSE <<>>)
          \o (IF ~lineHasThread(glyphs, MkRange(emphasisLine, emphasisLine))
              THEN <<Decoration(owner, info, of, MkRange(emphasisLine, emphasisLine), Hover)>>
              ELSE <<>>)
          \o (IF emphasisLine < range.e
              THEN <<Decoration(owner, info, of, MkRange(emphasisLine + 1, range.e), Plain)>>
              ELSE <<>>)
        ELSE <<Decoration(owner, info, of, range, Plain)>>

\* The branch of _doUpdate a provider range takes.
Branch(range, emphasisLine, selectionRange) ==
    LET isel == IF selectionRange # NoRange THEN intersectRanges(range, selectionRange) ELSE NoRange
    IN  IF /\ selectionRange # NoRange
           /\ emphasisLine >= 0
           /\ isel # NoRange
           /\ ~(isel.s = isel.e /\ emphasisLine = isel.s)
        THEN "selection"
        ELSE IF range.s <= emphasisLine /\ emphasisLine <= range.e THEN "emphasis"
        ELSE "unchanged"

\* One info's ranges, from index i on.
RECURSIVE doUpdateInfo(_, _, _, _, _, _)
doUpdateInfo(info, infoIdx, i, emphasisLine, selectionRange, glyphs) ==
    IF i > Len(info.ranges) THEN <<>>
    ELSE doUpdateRange(info.owner, infoIdx, i, info.ranges[i], emphasisLine, selectionRange, glyphs)
         \o doUpdateInfo(info, infoIdx, i + 1, emphasisLine, selectionRange, glyphs)

RECURSIVE doUpdateInfos(_, _, _, _, _)
doUpdateInfos(infoList, k, emphasisLine, selectionRange, glyphs) ==
    IF k > Len(infoList) THEN <<>>
    ELSE doUpdateInfo(infoList[k], k, 1, emphasisLine, selectionRange, glyphs)
         \o doUpdateInfos(infoList, k + 1, emphasisLine, selectionRange, glyphs)

\* The value of _lastSelectionCursor when it is undefined.
NoCursor == -2

\* A _doUpdate that would prefer the line it is given to the stored cursor
\* of the selection.
doUpdateGivenLineFirst(infoList, emphasisLine, selectionRange, lastSel, lastSelCursor, glyphs) ==
    doUpdateInfos(infoList, 1,
                  IF emphasisLine >= 0 THEN emphasisLine ELSE lastSelCursor,
                  IF selectionRange = NoRange THEN lastSel ELSE selectionRange,
                  glyphs)

\* _doUpdate(editor, commentInfos, emphasisLine = -1, selectionRange = this._lastSelection):
\* the new commentingRangeDecorations. A NoRange argument is an undefined one.
doUpdate(infoList, emphasisLine, selectionRange, lastSel, lastSelCursor, glyphs) ==
    doUpdateInfos(infoList, 1,
                  IF lastSelCursor # NoCursor THEN lastSelCursor ELSE emphasisLine,
                  IF selectionRange = NoRange THEN lastSel ELSE selectionRange,
                  glyphs)

\* A mutation of areRangesIntersectingOrTouchingByLine: adjacency does not count.
areRangesIntersectingByLine(a, b) ==
    ~(a.e < b.s) /\ ~(b.e < a.s)

\* areRangesIntersectingOrTouchingByLine(a, b)
areRangesIntersectingOrTouchingByLine(a, b) ==
    IF a.e < (b.s - 1) THEN FALSE
    ELSE IF (b.e + 1) < a.s THEN FALSE
    ELSE TRUE

\* A mutation of mergeRanges: the later range replaces the earlier one.
replaceRange(range, already) == range

\* The "Merge ranges" step of getMatchedCommentAction: the bounding range.
mergeRanges(range, already) ==
    [s |-> IF range.s < already.s THEN range.s ELSE already.s,
     e |-> IF range.e > already.e THEN range.e ELSE already.e]

\* The loop of getMatchedCommentAction over the decorations i..Len: found is
\* the map foundHoverActions (ownerId -> range and commentingRangesInfo, NoFound
\* when the key is absent), order the owners in the order the map received them.
NoFound == [range |-> NoRange, info |-> 0]

RECURSIVE matchLoop(_, _, _, _, _)
matchLoop(decorations, i, commentRange, found, order) ==
    IF i > Len(decorations) THEN [found |-> found, order |-> order]
    ELSE LET d == decorations[i]
             range == DecRange(d)
             already == IF d.owner \in DOMAIN found THEN found[d.owner] ELSE NoFound
         IN  IF areRangesIntersectingOrTouchingByLine(range, commentRange)
             THEN LET entry == IF already # NoFound /\ already.info = d.info
                               THEN [range |-> mergeRanges(range, already.range), info |-> d.info]
                               ELSE [range |-> range, info |-> d.info]
                      found2 == [o \in (DOMAIN found) \cup {d.owner} |->
                                    IF o = d.owner THEN entry ELSE found[o]]
                      order2 == IF d.owner \in DOMAIN found THEN order ELSE Append(order, d.owner)
                  IN  matchLoop(decorations, i + 1, commentRange, found2, order2)
             ELSE matchLoop(decorations, i + 1, commentRange, found, order)

\* getMatchedCommentAction(commentRange) for a defined commentRange: the owners
\* of the actions returned, in order.
getMatchedCommentAction(decorations, commentRange) ==
    LET r == matchLoop(decorations, 1, commentRange, <<>>, <<>>)
    IN  SelectSeq(r.order, LAMBDA o :
            r.found[o].range.s <= commentRange.s /\ commentRange.e <= r.found[o].range.e)

\* getMatchedCommentAction(undefined): the owners that declare fileComments.
getMatchedFileCommentAction(infoList) ==
    LET RECURSIVE go(_)
        go(k) == IF k > Len(infoList) THEN <<>>
                 ELSE (IF infoList[k].fileComments THEN <<infoList[k].owner>> ELSE <<>>)
                      \o go(k + 1)
    IN  go(1)

\* The decorations in the order getNearestCommentingRange scans them.
Reversed(seq) == [i \in 1..Len(seq) |-> seq[Len(seq) + 1 - i]]

\* The loop of getNearestCommentingRange over decorations i..Len; within is
\* findPositionContainedWithin (NoRange while undefined). The result is NoRange
\* when the loop ends without a return.
RECURSIVE nearestLoop(_, _, _, _, _)
nearestLoop(decorations, i, line, reverse, within) ==
    IF i > Len(decorations) THEN NoRange
    ELSE LET range == DecRange(decorations[i])
         IN  IF within # NoRange /\ areRangesIntersectingOrTouchingByLine(range, within)
             THEN nearestLoop(decorations, i + 1, line, reverse,
                              [s |-> Min(within.s, range.s), e |-> Max(within.e, range.e)])
             ELSE IF range.s <= line /\ line <= range.e
             THEN nearestLoop(decorations, i + 1, line, reverse, range)
             ELSE IF ~reverse /\ range.e < line
             THEN nearestLoop(decorations, i + 1, line, reverse, within)
             ELSE IF reverse /\ range.s > line
             THEN nearestLoop(decorations, i + 1, line, reverse, within)
             ELSE range

\* getNearestCommentingRange(findPosition, reverse) on a non-empty decoration
\* list (decorations[0] of an empty list is an out-of-bounds read).
getNearestCommentingRange(decs, line, reverse) ==
    LET decorations == IF reverse THEN Reversed(decs) ELSE decs
        found == nearestLoop(decorations, 1, line, reverse, NoRange)
    IN  IF found # NoRange THEN found ELSE DecRange(decorations[1])

\* ------------------------------------------------------------------------
\* CommentController: the values its state is made of
\* ------------------------------------------------------------------------
Owners == {"o1", "o2"}

ThreadIds == {"t1", "t2"}

\* Comment text; NoText is the empty / undefined string.
NoText == ""

Texts == {"a", "ab"}

Keys == Owners \X ThreadIds

\* A comment thread as a provider supplies it.  A thread of stage 0 is a
\* template: handle -1 and no comments; a thread of stage 1 has been submitted
\* and its last comment has the body "a".
Stages == {0, 1}

Thread(threadId, stage, line) ==
    [threadId |-> threadId, stage |-> stage,
     commentThreadHandle |-> IF stage = 0 THEN -1 ELSE 0,
     lastCommentBody |-> IF stage = 0 THEN NoText ELSE "a",
     line |-> line]

\* thread.collapsibleState === Expanded, as the provider sets it: a template
\* is expanded, a submitted thread collapsed.
ThreadExpanded(thread) == thread.stage = 0

\* An ICommentInfo: the provider's commenting ranges are fixed per owner.
ProviderRanges(owner) ==
    IF owner = "o1" THEN <<[s |-> 1, e |-> 2]>> ELSE <<[s |-> 2, e |-> 3]>>

CommentInfo(owner, threads) ==
    [owner |-> owner, threads |-> threads, pendingCommentThreads |-> <<>>]

NoMenu == [range |-> NoRange, owners |-> <<>>]

NoBatch == [owner |-> "", added |-> <<>>, removed |-> <<>>, changed |-> <<>>,
            pending |-> <<>>]

NoHistory == [text |-> NoText, evicted |-> FALSE]

NoLast == [batch |-> NoBatch, before |-> 0]

EmptyCache == [k \in Keys |-> NoText]

NotDestroyed == [cause |-> "", newComment |-> NoText, lastCommentBody |-> NoText,
                 had |-> NoText]

NoneDestroyed == [k \in Keys |-> NotDestroyed]

\* No add handler has run.
NoAdd ==
    [failed |-> FALSE, queued |-> FALSE, reported |-> FALSE, unchanged |-> FALSE,
     cleared |-> FALSE, direct |-> FALSE, whileOpen |-> FALSE, overQueue |-> FALSE]

\* The registry of continue-on drafts of the comment service, by owner and
\* line of the range; the document is the one the editor shows.
NoContinueOn == [k \in Owners \X DocLines |-> NoText]

\* No change-count event was fired.
NoCount == -1

\* A _doUpdate that would fire the count after every recompute.
decorationsCountAlways(old, new) == Len(new)

\* The end of _doUpdate: the event _onDidChangeDecorationsCount fires with
\* the new number of claims when it differs from the number before.
decorationsCountFired(old, new) ==
    LET rangesDifference == Len(old) - Len(new)
    IN  IF rangesDifference # 0 THEN Len(new) ELSE NoCount

\* The last step was a handler no claim asks about.
NoEvent ==
    [name |-> "", owner |-> "", newBefore |-> EmptyCache, editsBefore |-> EmptyCache,
     superseded |-> FALSE, outdated |-> FALSE, applied |-> FALSE, running |-> FALSE,
     batch |-> NoBatch, had |-> 0, widgets |-> <<>>, continueOn |-> NoContinueOn,
     updates |-> 0, follows |-> "", fired |-> NoCount]
\* superseded: a fetch resolved while a fetch of the same purpose that was
\* started after it is in flight (for beginCompute: _computePromise holds
\* another fetch).  widgets, continueOn: the live widgets and the registry
\* before the handler; updates: the number of decorator updates the step made;
\* follows: the handler whose fetch this step resolves, when that handler was
\* the step before.

\* History is kept where it is read.
Record(event) == IF recordEvents THEN event ELSE NoEvent

\* _editorDisposables = [] with nothing attached, and one set held and
\* attached.
NoListeners == [held |-> 0, attached |-> 0]

OneListenerSet == [held |-> 1, attached |-> 1]

\* clearEditorListeners(): the held set is disposed, the array is emptied.
clearEditorListeners(disposables) ==
    [held |-> 0, attached |-> disposables.attached - disposables.held]

\* registerEditorListeners() with an editor: the array is replaced by a new
\* one, without disposing what it held, and one set of listeners is attached.
registerEditorListeners(disposables) ==
    [held |-> 1, attached |-> disposables.attached + 1]

\* A handler that would register on every count that is not 0.
onDidChangeDecorationsCountAlways(count, disposables) ==
    IF count = NoCount THEN disposables
    ELSE IF count = 0 THEN clearEditorListeners(disposables)
    ELSE registerEditorListeners(disposables)

\* The controller's handler of onDidChangeDecorationsCount; NoCount: the
\* event did not fire.
onDidChangeDecorationsCount(count, disposables) ==
    IF count = NoCount THEN disposables
    ELSE IF count = 0 THEN clearEditorListeners(disposables)
    ELSE IF disposables.held = 0 THEN registerEditorListeners(disposables)
    ELSE disposables

\* The step recomputes the range decorator: the count it fires reaches the
\* handler, which starts from the listeners given.
countHandled(disposables) ==
    editorDisposables' =
        onDidChangeDecorationsCount(
            decorationsCountFired(commentingRangeDecorations, commentingRangeDecorations'),
            disposables)

ControllerAtRest ==
    /\ commentWidgets = <<>> /\ commentInfos = <<>>
    /\ pendingNewCommentCache = EmptyCache /\ pendingEditsCache = EmptyCache
    /\ continueOnComments = NoContinueOn
    /\ commentingEnabled = TRUE /\ inlineOriginal = FALSE
    /\ computePromise = 0 /\ fetches = {} /\ suspended = <<>> /\ ready = <<>>
    /\ addInProgress = FALSE /\ emptyThreadsToAddQueue = <<>>
    /\ templateRequests = <<>> /\ contextMenu = NoMenu /\ quickPick = NoMenu
    /\ addError = FALSE /\ lastAdd = NoAdd
    /\ rangeDelayer = 0 /\ rangeFetches = <<>>
    /\ outdated = {} /\ lastEvent = NoEvent
    /\ torn = [k \in Keys |-> NoHistory] /\ lastBatch = NoLast
    /\ destroyed = NoneDestroyed
    /\ editorDisposables = NoListeners

ControllerIdle == ControllerAtRest /\ recordEvents = FALSE

\* ------------------------------------------------------------------------
\* Specification SpecTile: _doUpdate on one provider range, for every input
\* ------------------------------------------------------------------------
TileIdle ==
    /\ tRange = [s |-> 1, e |-> 1] /\ tEmphasis = -1 /\ tSelection = NoRange
    /\ tGlyphs = {} /\ tOut = <<>> /\ tDone = FALSE

DecoratorIdle ==
    /\ infos = <<>> /\ lastHover = -1 /\ lastSelection = NoRange
    /\ lastSelectionCursor = NoCursor /\ commentingRangeDecorations = <<>>
    /\ glyphLines = {}

TileInit ==
    /\ tRange \in RangesIn(1, MaxLine)
    /\ tEmphasis \in {-1} \cup DocLines
    /\ tSelection \in {NoRange, MkRange(0, 0)} \cup RangesIn(1, MaxLine + 1)
    /\ tGlyphs \in SUBSET Lines
    /\ tOut = <<>>
    /\ tDone = FALSE
    /\ DecoratorIdle
    /\ ControllerIdle

Tile ==
    /\ ~tDone
    /\ tOut' = doUpdateRange("o1", 1, 1, tRange, tEmphasis, tSelection, tGlyphs)
    /\ tDone' = TRUE
    /\ UNCHANGED <<tRange, tEmphasis, tSelection, tGlyphs>>
    /\ UNCHANGED <<decoratorVars, controllerVars>>

TileNext == Tile

SpecTile == TileInit /\ [][TileNext]_vars

\* The lines covered by the decorations of out.
CoveredLines(out) == UNION {LinesOf(DecRange(out[i])) : i \in 1..Len(out)}

\* C1: the sub-ranges one run of _doUpdate emits for a provider range are
\* pairwise non-overlapping by line, for every selection and emphasis line.
C1_SubRangesDoNotOverlap ==
    tDone => \A i \in 1..Len(tOut), j \in 1..Len(tOut) :
                i # j => LinesOf(DecRange(tOut[i])) \cap LinesOf(DecRange(tOut[j])) = {}

\* C2: the union of the lines of the sub-ranges emitted for a provider range
\* is exactly the lines of that range: no sub-range reaches outside the range
\* and no line of it is left out. The claim is stated here granting the
\* suppression of C3 (a line that hosts a thread glyph may be left out), so
\* that what is left of it does not rest on that suppression.
C2_SubRangesCoverExactly ==
    tDone => /\ CoveredLines(tOut) \subseteq LinesOf(tRange)
             /\ LinesOf(tRange) \ tGlyphs \subseteq CoveredLines(tOut)

Info(owner, ranges) == [owner |-> owner, ranges |-> ranges, fileComments |-> FALSE]

Disjoint(a, b) == a.e < b.s \/ b.e < a.s

\* The comment infos a document's providers supply: one provider with one
\* range, one provider with two ranges that share no line (in either order),
\* two providers with one range each (the second within the first two lines).
InfoConfigs ==
    {<<Info("o1", <<r>>)>> : r \in RangesIn(1, MaxLine)}
    \cup {<<Info("o1", <<p[1], p[2]>>)>> :
            p \in {q \in RangesIn(1, MaxLine) \X RangesIn(1, MaxLine) : Disjoint(q[1], q[2])}}
    \cup {<<Info("o1", <<p[1]>>), Info("o2", <<p[2]>>)>> :
            p \in RangesIn(1, MaxLine) \X RangesIn(1, 2)}

\* The lines that host a thread glyph while the decorator runs.
GlyphChoices == {{}, {2}}

\* The value of an undefined line argument.
NoLine == -3

\* update(editor, commentInfos, cursorLine?, range?) with an editor.
update(infoList, cursorLine, range) ==
    /\ infos' = infoList
    /\ commentingRangeDecorations' =
          doUpdate(infoList, IF cursorLine = NoLine THEN -1 ELSE cursorLine, range,
                   lastSelection, lastSelectionCursor, glyphLines)
    /\ UNCHANGED <<lastHover, lastSelection, lastSelectionCursor, glyphLines>>

\* updateHover(hoverLine?)
updateHover(hoverLine) ==
    /\ commentingRangeDecorations' =
          IF hoverLine # lastHover
          THEN doUpdate(infos, IF hoverLine = NoLine THEN -1 ELSE hoverLine, NoRange,
                        lastSelection, lastSelectionCursor, glyphLines)
          ELSE commentingRangeDecorations
    /\ lastHover' = IF hoverLine = NoLine THEN -1 ELSE hoverLine
    /\ UNCHANGED <<infos, lastSelection, lastSelectionCursor, glyphLines>>

\* updateSelection(cursorLine, range): isEmpty is range.isEmpty().
updateSelection(cursorLine, range, isEmpty) ==
    /\ lastSelection' = IF isEmpty THEN NoRange ELSE range
    /\ lastSelectionCursor' = IF isEmpty THEN NoCursor ELSE cursorLine
    /\ commentingRangeDecorations' =
          doUpdate(infos, cursorLine, range, lastSelection', lastSelectionCursor', glyphLines)
    /\ UNCHANGED <<infos, lastHover, glyphLines>>

\* The (cursorLine, range) pairs an editor reports: the cursor is one end of
\* the selection.
CursorSelections == {<<c, MkRange(a, c)>> : a \in Lines, c \in Lines}

\* The decorator after update(editor, commentInfos) has stored the infos of
\* one of the configurations, with no hover and no selection yet.
DecoratorStart ==
    /\ infos \in InfoConfigs
    /\ glyphLines \in GlyphChoices
    /\ lastHover = -1 /\ lastSelection = NoRange /\ lastSelectionCursor = NoCursor
    /\ commentingRangeDecorations = doUpdate(infos, -1, NoRange, NoRange, NoCursor, glyphLines)
    /\ TileIdle

DecoratorInit == DecoratorStart /\ ControllerIdle

\* The same start, with the history of the recomputes kept.
DecoratorRecordingInit == DecoratorStart /\ ControllerAtRest /\ recordEvents = TRUE

\* History: whether the step ran _doUpdate, the number of claims before it
\* and the count it fired.
Recompute(recomputed) ==
    /\ lastEvent' = IF recomputed
                    THEN Record([NoEvent EXCEPT
                            !.name = "recompute",
                            !.had = Len(commentingRangeDecorations),
                            !.fired = decorationsCountFired(commentingRangeDecorations,
                                                            commentingRangeDecorations')])
                    ELSE NoEvent
    /\ UNCHANGED <<tileVars, widgetVars, computeVars, addVars, rangeVars, outdated,
                   recordEvents, editorDisposables>>

\* The mouse moves over a line, or leaves the text.
DecUpdateHover ==
    \E h \in Lines \cup {NoLine} : updateHover(h) /\ Recompute(h # lastHover)

\* A selection over lines (a drag or a cursor selection); an empty one has
\* both ends on the cursor's line.
DecUpdateSelection ==
    \E cs \in CursorSelections, isEmpty \in BOOLEAN :
        /\ isEmpty => cs[2].s = cs[2].e
        /\ updateSelection(cs[1], cs[2], isEmpty) /\ Recompute(TRUE)

\* The editor loses focus: onEditorChangeCursorSelection() passes the empty
\* default Range(0, 0, 0, 0).
DecBlur ==
    \E c \in Lines : updateSelection(c, MkRange(0, 0), TRUE) /\ Recompute(TRUE)

\* The controller calls update with the infos the decorator has, the
\* editor's cursor line and the selection the decorator was told of (none
\* when that was empty).
DecUpdate ==
    \E c \in Lines : update(infos, c, lastSelection) /\ Recompute(TRUE)

DecoratorNext == DecUpdateHover \/ DecUpdateSelection \/ DecBlur \/ DecUpdate

SpecDecorator == DecoratorInit /\ [][DecoratorNext]_vars

\* The decorator with the counts it fires kept.
SpecCount == DecoratorRecordingInit /\ [][DecoratorNext]_vars

\* C31: after a recompute the decorator fires its change-count event if and
\* only if the number of claims differs from the number the recompute before
\* had produced, and the value fired is the new number of claims.
C31_CountFiredIffChanged ==
    lastEvent.name = "recompute" =>
        /\ lastEvent.fired # NoCount <=> Len(commentingRangeDecorations) # lastEvent.had
        /\ lastEvent.fired # NoCount => lastEvent.fired = Len(commentingRangeDecorations)

\* A recompute by a hover turned one claim into three and fired 3.
C31_Witness ==
    /\ lastEvent.name = "recompute"
    /\ lastEvent.had = 1 /\ lastEvent.fired = 3
    /\ Len(commentingRangeDecorations) = 3

\* The hit ranges and the positions of the queries.
HitRanges == RangesIn(1, MaxLine)

Positions == 1..(MaxLine + 1)

SeqRange(seq) == {seq[i] : i \in 1..Len(seq)}

\* The decorations of owner o that touch or intersect h by line: some line of
\* the decoration is at most one line away from some line of h.
Touching(o, h) ==
    {i \in 1..Len(commentingRangeDecorations) :
        /\ commentingRangeDecorations[i].owner = o
        /\ \E l \in LinesOf(DecRange(commentingRangeDecorations[i])), m \in LinesOf(h) :
              l - m \in {-1, 0, 1}}

\* C4 as stated: an owner is returned for h iff the union of the lines of its
\* touching claims contains every line of h.
C4_MatchedIffUnionContains ==
    \A h \in HitRanges, o \in Owners :
        o \in SeqRange(getMatchedCommentAction(commentingRangeDecorations, h))
        <=> LinesOf(h) \subseteq
              UNION {LinesOf(DecRange(commentingRangeDecorations[i])) : i \in Touching(o, h)}

\* C4 amended: an owner is returned for h iff the bounding range of its
\* touching claims (lowest start line to highest end line) contains h.
C4_MatchedIffBoundingContains ==
    \A h \in HitRanges, o \in Owners :
        o \in SeqRange(getMatchedCommentAction(commentingRangeDecorations, h))
        <=> /\ Touching(o, h) # {}
            /\ \E i \in Touching(o, h) : commentingRangeDecorations[i].s <= h.s
            /\ \E i \in Touching(o, h) : commentingRangeDecorations[i].e >= h.e

\* C4 witness: the claims of o1 are [1,1] and [2,2]; o1 is returned for [1,2]
\* and not for [1,3].
C4_Witness ==
    /\ {DecRange(commentingRangeDecorations[i]) :
           i \in {j \in 1..Len(commentingRangeDecorations) :
                     commentingRangeDecorations[j].owner = "o1"}}
         = {[s |-> 1, e |-> 1], [s |-> 2, e |-> 2]}
    /\ "o1" \in SeqRange(getMatchedCommentAction(commentingRangeDecorations, [s |-> 1, e |-> 2]))
    /\ "o1" \notin SeqRange(getMatchedCommentAction(commentingRangeDecorations, [s |-> 1, e |-> 3]))

\* C34: for the stored provider ranges and any hit range, the owners that
\* getMatchedCommentAction returns are the same whatever emphasis line and
\* selection the recompute before had: the same as with no emphasis at all.
C34_MatchIndependentOfEmphasis ==
    \A h \in HitRanges :
        SeqRange(getMatchedCommentAction(commentingRangeDecorations, h))
        = SeqRange(getMatchedCommentAction(
                       doUpdate(infos, -1, NoRange, NoRange, NoCursor, glyphLines), h))

\* C5: on a non-empty claim set, a forward query from a position after every
\* claim returns a claim with the lowest lines, and a reverse query from a
\* position before every claim returns a claim with the highest lines.
C5_NearestWrapsToExtremes ==
    LET decs == commentingRangeDecorations
    IN  Len(decs) > 0 =>
          \A p \in Positions :
            /\ (\A i \in 1..Len(decs) : decs[i].e < p)
                  => \A i \in 1..Len(decs) :
                        getNearestCommentingRange(decs, p, FALSE).s <= decs[i].s
            /\ (\A i \in 1..Len(decs) : p < decs[i].s)
                  => \A i \in 1..Len(decs) :
                        getNearestCommentingRange(decs, p, TRUE).e >= decs[i].e

\* The block of claims around a range: the range grown by every claim that
\* intersects or touches it by line, until none is left to add.
RECURSIVE BlockAround(_, _)
BlockAround(decs, block) ==
    LET joined == {i \in 1..Len(decs) :
                      areRangesIntersectingOrTouchingByLine(DecRange(decs[i]), block)}
        grown == [s |-> Min(block.s, CHOOSE a \in {decs[i].s : i \in joined} :
                                         \A i \in joined : a <= decs[i].s),
                  e |-> Max(block.e, CHOOSE b \in {decs[i].e : i \in joined} :
                                         \A i \in joined : b >= decs[i].e)]
    IN  IF joined = {} \/ grown = block THEN block ELSE BlockAround(decs, grown)

\* The claims a query from line p must not return and those it may: inside is
\* whether a claim belongs to the block of touching claims that contains p.
InBlockOf(decs, p, i) ==
    /\ \E j \in 1..Len(decs) : decs[j].s <= p /\ p <= decs[j].e
    /\ LET block == BlockAround(decs, [s |-> p, e |-> p])
       IN  block.s <= decs[i].s /\ decs[i].e <= block.e

\* C28: a query that does not wrap returns a claim strictly after the
\* position's line (strictly before it, for a reverse query) that is outside
\* the block of touching claims containing the position, and no claim
\* outside that block lies between the position and the returned one.
C28_NearestOutsideBlock ==
    LET decs == commentingRangeDecorations
    IN  \A p \in Positions, reverse \in BOOLEAN :
          LET decorations == IF reverse THEN Reversed(decs) ELSE decs
              found == nearestLoop(decorations, 1, p, reverse, NoRange)
          IN  found # NoRange =>
                /\ ~(found.s <= p /\ p <= found.e)
                /\ IF reverse THEN found.e < p ELSE found.s > p
                /\ \A i \in 1..Len(decs) :
                      /\ DecRange(decs[i]) = found => ~InBlockOf(decs, p, i)
                      /\ (~InBlockOf(decs, p, i) /\ ~reverse /\ decs[i].s > p)
                            => found.s <= decs[i].s
                      /\ (~InBlockOf(decs, p, i) /\ reverse /\ decs[i].e < p)
                            => found.e >= decs[i].e

\* C29: a query that finds no match in the direction it scans returns the
\* first claim of the claim list as it is stored (not reversed), forward and
\* reverse alike.
C29_WrapReturnsFirstOfList ==
    LET decs == commentingRangeDecorations
    IN  Len(decs) > 0 =>
          \A p \in Positions, reverse \in BOOLEAN :
             nearestLoop(IF reverse THEN Reversed(decs) ELSE decs, 1, p, reverse, NoRange)
                   = NoRange
                => getNearestCommentingRange(decs, p, reverse) = DecRange(decs[1])

\* The selection ranges a recompute can be given.
SelectionRanges == RangesIn(0, MaxLine) \cup {NoRange}

\* C30: from an updateSelection with a non-empty selection and cursor line c
\* on, every recompute (by updateHover, update or updateSelection) tiles with
\* c as the emphasis line, whatever the hover line is, until updateSelection
\* reports an empty selection; from then on updateHover tiles with the hover
\* line again.
C30_SelectionBeforeHover ==
    [][/\ lastSelectionCursor' # NoCursor =>
            \E R \in SelectionRanges :
                commentingRangeDecorations'
                    = doUpdateInfos(infos', 1, lastSelectionCursor', R, glyphLines')
       /\ (lastSelectionCursor = NoCursor /\ lastHover' # lastHover) =>
            commentingRangeDecorations'
                = doUpdateInfos(infos', 1, lastHover', lastSelection', glyphLines')]_vars

\* A selection with its cursor on one line is held while the mouse is over
\* another line, and the tiling is not the one of the hover line.
C30_Witness ==
    /\ lastSelectionCursor \in Lines
    /\ lastHover \in Lines /\ lastHover # lastSelectionCursor
    /\ commentingRangeDecorations
         # doUpdateInfos(infos, 1, lastHover, lastSelection, glyphLines)
    /\ commentingRangeDecorations
         = doUpdateInfos(infos, 1, lastSelectionCursor, lastSelection, glyphLines)

\* ------------------------------------------------------------------------
\* CommentController: widgets, draft caches, setComments
\* ------------------------------------------------------------------------
RemoveAt(seq, i) == SubSeq(seq, 1, i - 1) \o SubSeq(seq, i + 1, Len(seq))

\* The index of the first element of seq that satisfies P, 0 if none does
\* (seq.filter(P)[0]).
FirstIndex(seq, P(_)) ==
    LET S == {i \in 1..Len(seq) : P(seq[i])}
    IN  IF S = {} THEN 0 ELSE CHOOSE i \in S : \A j \in S : i <= j

\* A ReviewZoneWidget created with (owner, thread, pendingComment,
\* pendingEdits): its comment box starts with the pending text.  newComment and
\* edits are what getPendingComments() returns; carried records what the last
\* teardown of a widget of this thread had left unsent.
ReviewZoneWidget(owner, thread, pendingComment, pendingEdits, expanded, history) ==
    [owner |-> owner, commentThread |-> thread, pendingComment |-> pendingComment,
     newComment |-> pendingComment, edits |-> pendingEdits, expanded |-> expanded,
     carried |-> history]

WidgetKey(zone) == <<zone.owner, zone.commentThread.threadId>>

\* widget.getGlyphPosition() of every live widget
GlyphLinesOf(widgets) == {widgets[i].commentThread.line : i \in 1..Len(widgets)}

\* The text a teardown has to keep: non-empty and not the last comment's body.
Unsent(zone) ==
    IF zone.newComment # NoText /\ zone.newComment # zone.commentThread.lastCommentBody
    THEN zone.newComment ELSE NoText

storeNewCommentNoDelete(cache, zone) ==
    IF zone.newComment # NoText /\ zone.newComment # zone.commentThread.lastCommentBody
    THEN [cache EXCEPT ![WidgetKey(zone)] = zone.newComment]
    ELSE cache

\* removeCommentWidgetsAndStoreCache, one zone: the new-comment draft
storeNewComment(cache, zone) ==
    IF zone.newComment # NoText /\ zone.newComment # zone.commentThread.lastCommentBody
    THEN [cache EXCEPT ![WidgetKey(zone)] = zone.newComment]
    ELSE [cache EXCEPT ![WidgetKey(zone)] = NoText]

\* removeCommentWidgetsAndStoreCache, one zone: the edit drafts
storeEdits(cache, zone) ==
    IF zone.edits # NoText
    THEN [cache EXCEPT ![WidgetKey(zone)] = zone.edits]
    ELSE [cache EXCEPT ![WidgetKey(zone)] = NoText]

RECURSIVE storeNewComments(_, _, _)
storeNewComments(widgets, i, cache) ==
    IF i > Len(widgets) THEN cache
    ELSE storeNewComments(widgets, i + 1, storeNewComment(cache, widgets[i]))

RECURSIVE storeAllEdits(_, _, _)
storeAllEdits(widgets, i, cache) ==
    IF i > Len(widgets) THEN cache
    ELSE storeAllEdits(widgets, i + 1, storeEdits(cache, widgets[i]))

\* History kept for the draft claims: what each torn-down widget had unsent.
RECURSIVE tornBy(_, _, _)
tornBy(widgets, i, history) ==
    IF i > Len(widgets) THEN history
    ELSE tornBy(widgets, i + 1,
                [history EXCEPT ![WidgetKey(widgets[i])] =
                    [text |-> Unsent(widgets[i]), evicted |-> FALSE]])

\* History kept for the draft claims: the widgets a step destroys, with the
\* cause, their text, their thread's last comment body and the draft the
\* store had for them.
RECURSIVE destroyedBy(_, _, _, _, _)
destroyedBy(widgets, i, cause, cache, history) ==
    IF i > Len(widgets) THEN history
    ELSE destroyedBy(widgets, i + 1, cause, cache,
             [history EXCEPT ![WidgetKey(widgets[i])] =
                 [cause |-> cause, newComment |-> widgets[i].newComment,
                  lastCommentBody |-> widgets[i].commentThread.lastCommentBody,
                  had |-> cache[WidgetKey(widgets[i])]]])

\* removeCommentWidgetsAndStoreCache()
removeCommentWidgetsAndStoreCache ==
    /\ pendingNewCommentCache' = storeNewComments(commentWidgets, 1, pendingNewCommentCache)
    /\ pendingEditsCache' = storeAllEdits(commentWidgets, 1, pendingEditsCache)
    /\ torn' = tornBy(commentWidgets, 1, torn)

displayWithoutDraft(widgets, owner, thread, pendingComment, pendingEdits, expanded, inline, history) ==
    IF inline THEN widgets
    ELSE Append(widgets, ReviewZoneWidget(owner, thread, NoText, pendingEdits, expanded,
                                          history[<<owner, thread.threadId>>]))

\* displayCommentThread(owner, thread, pendingComment, pendingEdits) with a
\* document open; inline is isEditorInlineOriginal(editor).
displayCommentThread(widgets, owner, thread, pendingComment, pendingEdits, expanded, inline, history) ==
    IF inline THEN widgets
    ELSE Append(widgets, ReviewZoneWidget(owner, thread, pendingComment, pendingEdits, expanded,
                                          history[<<owner, thread.threadId>>]))

\* setComments: info.threads.forEach(...) of one info
RECURSIVE displayThreads(_, _, _, _, _, _, _)
displayThreads(info, j, widgets, newCache, editsCache, inline, history) ==
    IF j > Len(info.threads) THEN widgets
    ELSE LET thread == info.threads[j]
             pendingComment == newCache[<<info.owner, thread.threadId>>]
             pendingEdits == editsCache[<<info.owner, thread.threadId>>]
             expanded == (pendingComment # NoText \/ pendingEdits # NoText)
                         \/ ThreadExpanded(thread)
         IN  displayThreads(info, j + 1,
                 displayCommentThread(widgets, info.owner, thread, pendingComment,
                                      pendingEdits, expanded, inline, history),
                 newCache, editsCache, inline, history)

\* setComments: this._commentInfos.forEach(...), the widgets
RECURSIVE displayInfos(_, _, _, _, _, _, _)
displayInfos(infoList, k, widgets, newCache, editsCache, inline, history) ==
    IF k > Len(infoList) THEN widgets
    ELSE displayInfos(infoList, k + 1,
             displayThreads(infoList[k], 1, widgets, newCache, editsCache, inline, history),
             newCache, editsCache, inline, history)

\* commentService.createCommentThreadTemplate(owner, uri, range): the request
\* is out until the provider answers it.
createCommentThreadTemplate(requests, owner, line) ==
    Append(requests, [owner |-> owner, line |-> line])

RECURSIVE requestTemplates(_, _, _)
requestTemplates(requests, pendingThreads, j) ==
    IF j > Len(pendingThreads) THEN requests
    ELSE requestTemplates(
             createCommentThreadTemplate(requests, pendingThreads[j].owner, pendingThreads[j].line),
             pendingThreads, j + 1)

\* setComments: this._commentInfos.forEach(...), the pendingCommentThreads
RECURSIVE requestPendingOfInfos(_, _, _)
requestPendingOfInfos(requests, infoList, k) ==
    IF k > Len(infoList) THEN requests
    ELSE requestPendingOfInfos(
             requestTemplates(requests, infoList[k].pendingCommentThreads, 1), infoList, k + 1)

\* The commenting ranges of the comment infos, as the range decorator reads them.
RangeInfos(infoList) ==
    [k \in 1..Len(infoList) |-> Info(infoList[k].owner, ProviderRanges(infoList[k].owner))]

\* this._commentingRangeDecorator.update(this.editor, infoList), run once the
\* glyphs of the widgets of the next state are in place.
updateDecorator(infoList) ==
    /\ infos' = RangeInfos(infoList)
    /\ commentingRangeDecorations' =
          doUpdate(RangeInfos(infoList), -1, NoRange, lastSelection, lastSelectionCursor,
                   glyphLines')
    /\ UNCHANGED <<lastHover, lastSelection, lastSelectionCursor>>

\* What _commentInfos keeps of the infos it is given.  The threads of an info
\* are read when setComments displays them and never after (the handlers that
\* push to and splice from info.threads only write), so the state keeps the
\* owners and their ranges.
StoredInfos(infoList) == [k \in 1..Len(infoList) |-> [owner |-> infoList[k].owner]]

\* setComments(commentInfos) with an editor
setComments(newInfos) ==
    IF ~commentingEnabled
    THEN /\ UNCHANGED <<commentInfos, commentWidgets, pendingNewCommentCache,
                        pendingEditsCache, torn, templateRequests, decoratorVars,
                        editorDisposables>>
         /\ destroyed' = NoneDestroyed
    ELSE /\ commentInfos' = StoredInfos(newInfos)
         /\ destroyed' = destroyedBy(commentWidgets, 1, "setComments", pendingNewCommentCache,
                                     NoneDestroyed)
         /\ removeCommentWidgetsAndStoreCache
         /\ commentWidgets' = displayInfos(newInfos, 1, <<>>, pendingNewCommentCache',
                                           pendingEditsCache', inlineOriginal, torn')
         /\ templateRequests' = requestPendingOfInfos(templateRequests, newInfos, 1)
         /\ glyphLines' = GlyphLinesOf(commentWidgets')
         /\ updateDecorator(newInfos)
         /\ countHandled(editorDisposables)

\* ------------------------------------------------------------------------
\* CommentController: the onDidUpdateCommentThreads handler
\* ------------------------------------------------------------------------
\* The state the phases of one batch work on.
BatchState(widgets, continueOn, requests) ==
    [widgets |-> widgets, continueOn |-> continueOn, requests |-> requests]

\* this._commentInfos.filter(info => info.owner === owner)[0], as an index
InfoIndex(infoList, owner) == FirstIndex(infoList, LAMBDA info : info.owner = owner)

\* zoneWidget.update(thread): the widget shows the new thread data and keeps
\* its expansion and its unsent text.
updateWidget(zone, thread) == [zone EXCEPT !.commentThread = thread]

\* A handler that would match a removed thread on the owner alone.
removeThreadOfOwner(st, owner, thread) ==
    LET matched == FirstIndex(st.widgets, LAMBDA z : z.owner = owner)
    IN  [st EXCEPT
           !.widgets = IF matched # 0 THEN RemoveAt(st.widgets, matched) ELSE st.widgets]

\* removed.forEach(thread => ...), one thread
removeThread(st, owner, thread) ==
    LET matched == FirstIndex(st.widgets,
                       LAMBDA z : z.owner = owner
                                  /\ z.commentThread.threadId = thread.threadId
                                  /\ z.commentThread.threadId # "")
    IN  [st EXCEPT
           !.widgets = IF matched # 0 THEN RemoveAt(st.widgets, matched) ELSE st.widgets]

\* A handler that would replace the widget of a changed thread by a new one.
changeThreadRecreate(st, owner, thread) ==
    LET matched == FirstIndex(st.widgets,
                       LAMBDA z : z.owner = owner
                                  /\ z.commentThread.threadId = thread.threadId)
    IN  IF matched # 0
        THEN [st EXCEPT !.widgets =
                 Append(RemoveAt(st.widgets, matched),
                        ReviewZoneWidget(owner, thread, NoText, NoText, ThreadExpanded(thread),
                                         st.widgets[matched].carried))]
        ELSE st

\* changed.forEach(thread => ...), one thread
changeThread(st, owner, thread) ==
    LET matched == FirstIndex(st.widgets,
                       LAMBDA z : z.owner = owner
                                  /\ z.commentThread.threadId = thread.threadId)
    IN  IF matched # 0
        THEN [st EXCEPT !.widgets[matched] = updateWidget(st.widgets[matched], thread)]
        ELSE st

\* The widget an added thread gets when none is reused: the registry entry
\* of its range is taken out, the draft is the cache entry or else that
\* registry entry.
addWidget(st, owner, thread, newCache, editsCache, inline, history) ==
    LET continueOnCommentText == st.continueOn[<<owner, thread.line>>]
        cached == newCache[<<owner, thread.threadId>>]
        pendingCommentText == IF cached # NoText THEN cached ELSE continueOnCommentText
        pendingEdits == editsCache[<<owner, thread.threadId>>]
    IN  [st EXCEPT
           !.continueOn = [st.continueOn EXCEPT ![<<owner, thread.line>>] = NoText],
           !.widgets = displayCommentThread(st.widgets, owner, thread, pendingCommentText,
                           pendingEdits, ThreadExpanded(thread), inline, history)]

\* A handler that would not look for a widget of the thread.
addThreadAgain(st, owner, thread, newCache, editsCache, inline, history) ==
    LET matchedNew == FirstIndex(st.widgets,
                       LAMBDA z : z.owner = owner
                                  /\ z.commentThread.commentThreadHandle = -1
                                  /\ z.commentThread.line = thread.line)
    IN  IF matchedNew # 0
        THEN [st EXCEPT !.widgets[matchedNew] = updateWidget(st.widgets[matchedNew], thread)]
        ELSE addWidget(st, owner, thread, newCache, editsCache, inline, history)

\* A handler that would not look for a locally created widget on the range.
addThreadBeside(st, owner, thread, newCache, editsCache, inline, history) ==
    LET matched == FirstIndex(st.widgets,
                       LAMBDA z : z.owner = owner
                                  /\ z.commentThread.threadId = thread.threadId)
    IN  IF matched # 0 THEN st
        ELSE addWidget(st, owner, thread, newCache, editsCache, inline, history)

\* A handler that would prefer the registry entry to the cache entry.
addThreadContinueFirst(st, owner, thread, newCache, editsCache, inline, history) ==
    LET matched == FirstIndex(st.widgets,
                       LAMBDA z : z.owner = owner
                                  /\ z.commentThread.threadId = thread.threadId)
        matchedNew == FirstIndex(st.widgets,
                       LAMBDA z : z.owner = owner
                                  /\ z.commentThread.commentThreadHandle = -1
                                  /\ z.commentThread.line = thread.line)
        continueOnCommentText == st.continueOn[<<owner, thread.line>>]
        cached == newCache[<<owner, thread.threadId>>]
    IN  IF matched # 0 THEN st
        ELSE IF matchedNew # 0
        THEN [st EXCEPT !.widgets[matchedNew] = updateWidget(st.widgets[matchedNew], thread)]
        ELSE [st EXCEPT
                !.continueOn = [st.continueOn EXCEPT ![<<owner, thread.line>>] = NoText],
                !.widgets = displayCommentThread(st.widgets, owner, thread,
                                IF continueOnCommentText # NoText THEN continueOnCommentText
                                ELSE cached,
                                editsCache[<<owner, thread.threadId>>],
                                ThreadExpanded(thread), inline, history)]

\* added.forEach(thread => ...), one thread
addThread(st, owner, thread, newCache, editsCache, inline, history) ==
    LET matched == FirstIndex(st.widgets,
                       LAMBDA z : z.owner = owner
                                  /\ z.commentThread.threadId = thread.threadId)
        matchedNew == FirstIndex(st.widgets,
                       LAMBDA z : z.owner = owner
                                  /\ z.commentThread.commentThreadHandle = -1
                                  /\ z.commentThread.line = thread.line)
    IN  IF matched # 0 THEN st
        ELSE IF matchedNew # 0
        THEN [st EXCEPT !.widgets[matchedNew] = updateWidget(st.widgets[matchedNew], thread)]
        ELSE addWidget(st, owner, thread, newCache, editsCache, inline, history)

RECURSIVE removedPhase(_, _, _, _)
removedPhase(st, owner, removed, j) ==
    IF j > Len(removed) THEN st
    ELSE removedPhase(removeThread(st, owner, removed[j]), owner, removed, j + 1)

RECURSIVE changedPhase(_, _, _, _)
changedPhase(st, owner, changed, j) ==
    IF j > Len(changed) THEN st
    ELSE changedPhase(changeThread(st, owner, changed[j]), owner, changed, j + 1)

RECURSIVE addedPhase(_, _, _, _, _, _, _, _)
addedPhase(st, owner, added, j, newCache, editsCache, inline, history) ==
    IF j > Len(added) THEN st
    ELSE addedPhase(addThread(st, owner, added[j], newCache, editsCache, inline, history),
                    owner, added, j + 1, newCache, editsCache, inline, history)

pendingPhase(st, pending) ==
    [st EXCEPT !.requests = requestTemplates(st.requests, pending, 1)]

addedBeforeRemoved(st, e, newCache, editsCache, inline, history) ==
    pendingPhase(
        changedPhase(
            removedPhase(
                addedPhase(st, e.owner, e.added, 1, newCache, editsCache, inline, history),
                e.owner, e.removed, 1),
            e.owner, e.changed, 1),
        e.pending)

changedAfterAdded(st, e, newCache, editsCache, inline, history) ==
    pendingPhase(
        changedPhase(
            addedPhase(
                removedPhase(st, e.owner, e.removed, 1),
                e.owner, e.added, 1, newCache, editsCache, inline, history),
            e.owner, e.changed, 1),
        e.pending)

\* The four phases in the order of the handler: removed, changed, added,
\* pending.
applyBatch(st, e, newCache, editsCache, inline, history) ==
    pendingPhase(
        addedPhase(
            changedPhase(
                removedPhase(st, e.owner, e.removed, 1),
                e.owner, e.changed, 1),
            e.owner, e.added, 1, newCache, editsCache, inline, history),
        e.pending)

\* The number of live widgets of owner that show exactly this thread.
WidgetsShowing(widgets, owner, thread) ==
    Cardinality({i \in 1..Len(widgets) :
                    widgets[i].owner = owner /\ widgets[i].commentThread = thread})

\* The handler from "const commentInfo = ..." on, that is after its guards and
\* its await.
processBatch(e, requests) ==
    IF InfoIndex(commentInfos, e.owner) = 0
    THEN /\ UNCHANGED <<commentWidgets, continueOnComments, glyphLines>>
         /\ templateRequests' = requests
         /\ lastBatch' = NoLast /\ destroyed' = NoneDestroyed
    ELSE LET after == applyBatch(BatchState(commentWidgets, continueOnComments, requests),
                                 e, pendingNewCommentCache, pendingEditsCache, inlineOriginal,
                                 torn)
         IN  /\ commentWidgets' = after.widgets
             /\ continueOnComments' = after.continueOn
             /\ templateRequests' = after.requests
             /\ glyphLines' = GlyphLinesOf(after.widgets)
             /\ lastBatch' = IF e.removed # <<>> /\ e.added # <<>>
                             THEN [batch |-> e,
                                   before |-> WidgetsShowing(commentWidgets, e.owner, e.removed[1])]
                             ELSE NoLast
             /\ destroyed' = NoneDestroyed

\* History: the batch e has been applied by processBatch.  running: it is
\* applied as it arrives, with a fetch of beginCompute in flight; isOutdated:
\* the editor has left the document the batch was filtered for; had: the
\* number of widgets the first added thread had before.
BatchEvent(e, running, isOutdated) ==
    IF InfoIndex(commentInfos, e.owner) = 0
    THEN Record([NoEvent EXCEPT
                    !.name = "batchIgnored", !.owner = e.owner, !.batch = e,
                    !.newBefore = pendingNewCommentCache,
                    !.editsBefore = pendingEditsCache,
                    !.widgets = commentWidgets, !.continueOn = continueOnComments])
    ELSE Record([NoEvent EXCEPT
                    !.name = "batch", !.owner = e.owner, !.applied = TRUE,
                    !.running = running, !.outdated = isOutdated, !.batch = e,
                    !.newBefore = pendingNewCommentCache,
                    !.editsBefore = pendingEditsCache,
                    !.widgets = commentWidgets, !.continueOn = continueOnComments,
                    !.had = IF e.added = <<>> THEN 0
                            ELSE Cardinality(
                                     {i \in 1..Len(commentWidgets) :
                                         WidgetKey(commentWidgets[i])
                                             = <<e.owner, e.added[1].threadId>>})])

\* The whole handler for a batch e that arrives; requests are the template
\* requests that are out when it arrives.
didUpdateCommentThreads(e, requests) ==
    IF ~commentingEnabled
    THEN /\ UNCHANGED <<commentWidgets, continueOnComments, glyphLines, suspended>>
         /\ templateRequests' = requests
         /\ lastBatch' = NoLast /\ destroyed' = NoneDestroyed
         /\ lastEvent' = NoEvent
    ELSE IF computePromise # 0 /\ computePromise \notin fetches
    THEN \* _computePromise is a rejected promise: the await throws
         /\ UNCHANGED <<commentWidgets, continueOnComments, glyphLines, suspended>>
         /\ templateRequests' = requests
         /\ lastBatch' = NoLast /\ destroyed' = NoneDestroyed
         /\ lastEvent' = Record([NoEvent EXCEPT !.name = "batchRejected", !.owner = e.owner,
                                                 !.batch = e, !.widgets = commentWidgets])
    ELSE IF computePromise # 0
    THEN /\ suspended' = Append(suspended,
                                [batch |-> e, promise |-> computePromise,
                                 outdated |-> FALSE])
         /\ UNCHANGED <<commentWidgets, continueOnComments, glyphLines>>
         /\ templateRequests' = requests
         /\ lastBatch' = NoLast /\ destroyed' = NoneDestroyed
         /\ lastEvent' = NoEvent
    ELSE /\ processBatch(e, requests)
         /\ lastEvent' = BatchEvent(e, fetches # {}, FALSE)
         /\ UNCHANGED suspended

\* ------------------------------------------------------------------------
\* CommentController: what the environment supplies
\* ------------------------------------------------------------------------
MaxFetch == 2

MaxSuspended == 1

MaxTriggers == 2

\* The line of the threads a provider reports, and the thread ids it uses.
ThreadLine(owner) == IF owner = "o1" THEN 1 ELSE 3

ThreadIdsOf(owner) == IF owner = "o1" THEN {"t1", "t2"} ELSE {"t1"}

ProviderThread(owner, threadId, stage) == Thread(threadId, stage, ThreadLine(owner))

Batch(owner, added, removed, changed, pending) ==
    [owner |-> owner, added |-> added, removed |-> removed, changed |-> changed,
     pending |-> pending]

\* The batches a provider sends about one of its threads: the thread added,
\* removed, changed, or removed as a template and added as submitted.
BatchesOf(o, tid) ==
    {Batch(o, <<ProviderThread(o, tid, st)>>, <<>>, <<>>, <<>>) : st \in Stages}
    \cup {Batch(o, <<>>, <<ProviderThread(o, tid, st)>>, <<>>, <<>>) : st \in Stages}
    \cup {Batch(o, <<>>, <<>>, <<ProviderThread(o, tid, 1)>>, <<>>),
          Batch(o, <<ProviderThread(o, tid, 1)>>, <<ProviderThread(o, tid, 0)>>, <<>>, <<>>)}

BatchInputs == UNION {UNION {BatchesOf(o, tid) : tid \in ThreadIdsOf(o)} : o \in Owners}

\* ------------------------------------------------------------------------
\* CommentController: the events
\* ------------------------------------------------------------------------
\* beginCompute(): the new promise replaces _computePromise; a promise that
\* was there before stays in flight.
beginCompute ==
    /\ Cardinality(fetches) < MaxFetch
    /\ LET free == (1..MaxFetch) \ fetches
           id == CHOOSE i \in free : \A j \in free : i <= j
       IN  /\ fetches' = fetches \cup {id}
           /\ computePromise' = id

\* The user types in the comment box of a widget.
EditNewComment ==
    /\ ready = <<>>
    /\ \E i \in 1..Len(commentWidgets), text \in Texts \cup {NoText} :
          /\ text # commentWidgets[i].newComment
          /\ commentWidgets' = [commentWidgets EXCEPT ![i].newComment = text]
    /\ lastBatch' = NoLast /\ destroyed' = NoneDestroyed
    /\ lastEvent' = NoEvent /\ UNCHANGED <<rangeVars, outdated, recordEvents, editorDisposables>>
    /\ UNCHANGED <<commentInfos, pendingNewCommentCache, pendingEditsCache,
                   continueOnComments, commentingEnabled, inlineOriginal, torn>>
    /\ UNCHANGED <<tileVars, decoratorVars, computeVars, addVars>>

\* The user edits a comment of a thread in its widget, or drops the edit.
EditComment ==
    /\ ready = <<>>
    /\ \E i \in 1..Len(commentWidgets), text \in Texts \cup {NoText} :
          /\ commentWidgets[i].commentThread.stage = 1
          /\ text # commentWidgets[i].edits
          /\ commentWidgets' = [commentWidgets EXCEPT ![i].edits = text]
    /\ lastBatch' = NoLast /\ destroyed' = NoneDestroyed
    /\ lastEvent' = NoEvent /\ UNCHANGED <<rangeVars, outdated, recordEvents, editorDisposables>>
    /\ UNCHANGED <<commentInfos, pendingNewCommentCache, pendingEditsCache,
                   continueOnComments, commentingEnabled, inlineOriginal, torn>>
    /\ UNCHANGED <<tileVars, decoratorVars, computeVars, addVars>>

\* onModelChanged() with an editor
OnModelChanged ==
    /\ ready = <<>>
    /\ removeCommentWidgetsAndStoreCache
    /\ commentWidgets' = <<>>
    /\ glyphLines' = {}
    /\ beginCompute
    /\ lastBatch' = NoLast
    /\ destroyed' = destroyedBy(commentWidgets, 1, "model", pendingNewCommentCache,
                                NoneDestroyed)
    /\ UNCHANGED <<commentInfos, continueOnComments, commentingEnabled, inlineOriginal>>
    /\ UNCHANGED <<infos, lastHover, lastSelection, lastSelectionCursor,
                   commentingRangeDecorations>>
    /\ suspended' = [i \in 1..Len(suspended) |->
                         [suspended[i] EXCEPT !.outdated = recordEvents]]
    /\ rangeDelayer' = 0
    /\ rangeFetches' = [i \in 1..Len(rangeFetches) |->
                            [rangeFetches[i] EXCEPT !.outdated = recordEvents]]
    /\ outdated' = IF recordEvents THEN fetches ELSE {}
    /\ lastEvent' = NoEvent
    /\ editorDisposables' =
          IF editorDisposables.held # 0
          THEN registerEditorListeners(clearEditorListeners(editorDisposables))
          ELSE editorDisposables
    /\ UNCHANGED <<tileVars, ready, addVars, recordEvents>>

\* History: the drafts of the evicted owners are gone from the store.
evict(history, ownerId) ==
    [k \in Keys |-> IF (ownerId = "" \/ k[1] = ownerId) /\ history[k].text # NoText
                    THEN [history[k] EXCEPT !.evicted = TRUE]
                    ELSE history[k]]

deleteEveryOwner(cache, ownerId) == EmptyCache

\* delete cache[ownerId], or cache = {} when ownerId is undefined ("")
deleteOwner(cache, ownerId) ==
    [k \in Keys |-> IF ownerId = "" \/ k[1] = ownerId THEN NoText ELSE cache[k]]

\* commentService.onDidDeleteDataProvider(ownerId): ownerId "" is undefined
OnDidDeleteDataProvider ==
    /\ ready = <<>>
    /\ \E ownerId \in Owners \cup {""} :
          /\ pendingNewCommentCache' = deleteOwner(pendingNewCommentCache, ownerId)
          /\ pendingEditsCache' = deleteOwner(pendingEditsCache, ownerId)
          /\ torn' = evict(torn, ownerId)
          /\ lastEvent' = Record([NoEvent EXCEPT !.name = "deleteDataProvider",
                                                 !.owner = ownerId,
                                                 !.newBefore = pendingNewCommentCache,
                                                 !.editsBefore = pendingEditsCache])
    /\ beginCompute
    /\ lastBatch' = NoLast /\ destroyed' = NoneDestroyed
    /\ UNCHANGED <<rangeVars, outdated, recordEvents, editorDisposables>>
    /\ UNCHANGED <<commentWidgets, commentInfos, continueOnComments, commentingEnabled,
                   inlineOriginal>>
    /\ UNCHANGED <<tileVars, decoratorVars, suspended, ready, addVars>>

\* onDidSetDataProvider, onDidUpdateCommentingRanges, a change of
\* diffEditor.renderSideBySide: beginCompute and nothing else
OnDidSetDataProvider ==
    /\ ready = <<>>
    /\ beginCompute
    /\ lastBatch' = NoLast /\ destroyed' = NoneDestroyed
    /\ lastEvent' = NoEvent /\ UNCHANGED <<rangeVars, outdated, recordEvents, editorDisposables>>
    /\ UNCHANGED <<commentWidgets, commentInfos, pendingNewCommentCache, pendingEditsCache,
                   continueOnComments, commentingEnabled, inlineOriginal, torn>>
    /\ UNCHANGED <<tileVars, decoratorVars, suspended, ready, addVars>>

\* A fetch of beginCompute resolves: setComments(coalesce(commentInfos)),
\* _computePromise = null; the handlers that awaited this promise continue
\* right after.
ComputeResolved(results) ==
    /\ ready = <<>>
    /\ \E id \in fetches, result \in results :
          /\ setComments(result)
          /\ fetches' = fetches \ {id}
          /\ ready' = SelectSeq(suspended, LAMBDA h : h.promise = id)
          /\ suspended' = SelectSeq(suspended, LAMBDA h : h.promise # id)
          /\ outdated' = outdated \ {id}
          /\ lastEvent' = Record([NoEvent EXCEPT
                                     !.name = "computeResolved",
                                     !.follows = IF lastEvent.name = "deleteDataProvider"
                                                    /\ id = computePromise
                                                 THEN lastEvent.name ELSE "",
                                     !.owner = IF lastEvent.name = "deleteDataProvider"
                                                  /\ id = computePromise
                                               THEN lastEvent.owner ELSE "",
                                     !.superseded = computePromise \notin {0, id},
                                     !.outdated = id \in outdated,
                                     !.applied = commentingEnabled])
    /\ computePromise' = 0
    /\ lastBatch' = NoLast
    /\ UNCHANGED <<rangeVars, recordEvents>>
    /\ UNCHANGED <<continueOnComments, commentingEnabled, inlineOriginal>>
    /\ UNCHANGED <<tileVars, addInProgress, emptyThreadsToAddQueue, contextMenu, quickPick,
                   addError, lastAdd>>

\* A fetch of beginCompute rejects: the rejection handler logs the error and
\* nothing else, so _computePromise keeps the rejected promise when it held
\* this one (computePromise is then an id that is not in fetches).  The
\* handlers that awaited this promise end with the rejection.
ComputeFailed ==
    /\ ready = <<>>
    /\ \E id \in fetches :
          /\ fetches' = fetches \ {id}
          /\ suspended' = SelectSeq(suspended, LAMBDA h : h.promise # id)
          /\ outdated' = outdated \ {id}
          /\ lastEvent' = Record([NoEvent EXCEPT
                                     !.name = "computeFailed",
                                     !.superseded = computePromise # id,
                                     !.had = Len(SelectSeq(suspended,
                                                           LAMBDA h : h.promise = id)),
                                     !.widgets = commentWidgets])
    /\ lastBatch' = NoLast /\ destroyed' = NoneDestroyed
    /\ UNCHANGED <<rangeVars, recordEvents, editorDisposables>>
    /\ UNCHANGED <<commentWidgets, commentInfos, pendingNewCommentCache, pendingEditsCache,
                   continueOnComments, commentingEnabled, inlineOriginal, torn>>
    /\ UNCHANGED <<tileVars, decoratorVars, computePromise, ready, addVars>>

\* commentService.onDidSetResourceCommentInfos for the editor's document
OnDidSetResourceCommentInfos(results) ==
    /\ ready = <<>>
    /\ \E result \in results : setComments(result)
    /\ lastBatch' = NoLast
    /\ lastEvent' = NoEvent /\ UNCHANGED <<rangeVars, outdated, recordEvents>>
    /\ UNCHANGED <<continueOnComments, commentingEnabled, inlineOriginal>>
    /\ UNCHANGED <<tileVars, computeVars, addInProgress, emptyThreadsToAddQueue, contextMenu,
                   quickPick, addError, lastAdd>>

\* commentService.onDidUpdateCommentThreads(e) for the editor's document
OnDidUpdateCommentThreads(batches) ==
    /\ ready = <<>>
    /\ (commentingEnabled /\ computePromise # 0) => Len(suspended) < MaxSuspended
    /\ \E e \in batches : didUpdateCommentThreads(e, templateRequests)
    /\ UNCHANGED <<rangeVars, outdated, recordEvents, editorDisposables>>
    /\ UNCHANGED <<commentInfos, pendingNewCommentCache, pendingEditsCache,
                   commentingEnabled, inlineOriginal, torn>>
    /\ UNCHANGED <<infos, lastHover, lastSelection, lastSelectionCursor,
                   commentingRangeDecorations>>
    /\ UNCHANGED <<tileVars, computePromise, fetches, ready, addInProgress,
                   emptyThreadsToAddQueue, contextMenu, quickPick, addError, lastAdd>>

\* A handler that awaited _computePromise continues.
ResumeBatch ==
    /\ ready # <<>>
    /\ processBatch(Head(ready).batch, templateRequests)
    /\ lastEvent' = BatchEvent(Head(ready).batch, FALSE, Head(ready).outdated)
    /\ ready' = Tail(ready)
    /\ UNCHANGED <<rangeVars, outdated, recordEvents, editorDisposables>>
    /\ UNCHANGED <<commentInfos, pendingNewCommentCache, pendingEditsCache,
                   commentingEnabled, inlineOriginal, torn>>
    /\ UNCHANGED <<infos, lastHover, lastSelection, lastSelectionCursor,
                   commentingRangeDecorations>>
    /\ UNCHANGED <<tileVars, computePromise, fetches, suspended, addInProgress,
                   emptyThreadsToAddQueue, contextMenu, quickPick, addError, lastAdd>>

\* commentService.onDidChangeCommentingEnabled(e), fired when the setting flips
OnDidChangeCommentingEnabled ==
    /\ ready = <<>>
    /\ commentingEnabled' = ~commentingEnabled
    /\ IF commentingEnabled'
       THEN /\ editorDisposables' = registerEditorListeners(editorDisposables)
            /\ beginCompute
            /\ destroyed' = NoneDestroyed
            /\ UNCHANGED <<commentWidgets, decoratorVars>>
       ELSE /\ commentWidgets' = <<>>
            /\ destroyed' = destroyedBy(commentWidgets, 1, "disabled", pendingNewCommentCache,
                                        NoneDestroyed)
            /\ glyphLines' = {}
            /\ updateDecorator(<<>>)
            /\ countHandled(clearEditorListeners(editorDisposables))
            /\ UNCHANGED <<computePromise, fetches>>
    /\ lastBatch' = NoLast
    /\ lastEvent' = NoEvent /\ UNCHANGED <<rangeVars, outdated, recordEvents>>
    /\ UNCHANGED <<commentInfos, pendingNewCommentCache, pendingEditsCache,
                   continueOnComments, inlineOriginal, torn>>
    /\ UNCHANGED <<tileVars, suspended, ready, addVars>>

\* The editor becomes, or stops being, the original side of an inline diff
\* editor (isEditorInlineOriginal).
ChangeInlineOriginal ==
    /\ ready = <<>>
    /\ inlineOriginal' = ~inlineOriginal
    /\ lastBatch' = NoLast /\ destroyed' = NoneDestroyed
    /\ lastEvent' = NoEvent /\ UNCHANGED <<rangeVars, outdated, recordEvents, editorDisposables>>
    /\ UNCHANGED <<commentWidgets, commentInfos, pendingNewCommentCache, pendingEditsCache,
                   continueOnComments, commentingEnabled, torn>>
    /\ UNCHANGED <<tileVars, decoratorVars, computeVars, addVars>>

\* editor.onDidChangeModelContent: beginComputeCommentingRanges().  The
\* scheduler is there since onModelChanged; _computeCommentingRangePromise is
\* assigned nowhere, so nothing is cancelled.  trigger() restarts the delay
\* and hands every caller the same promise.
OnDidChangeModelContent ==
    /\ ready = <<>>
    /\ rangeDelayer < MaxTriggers
    /\ rangeDelayer' = rangeDelayer + 1
    /\ lastBatch' = NoLast /\ destroyed' = NoneDestroyed /\ lastEvent' = NoEvent
    /\ UNCHANGED <<commentWidgets, commentInfos, pendingNewCommentCache, pendingEditsCache,
                   continueOnComments, commentingEnabled, inlineOriginal, torn>>
    /\ UNCHANGED <<tileVars, decoratorVars, computeVars, addVars, rangeFetches, outdated,
                   recordEvents, editorDisposables>>

\* The delay of the scheduler elapses: the task of the last trigger runs and
\* calls getDocumentComments; the callers of trigger wait for its result.
RangeDelayElapsed ==
    /\ ready = <<>>
    /\ rangeDelayer > 0
    /\ Len(rangeFetches) < MaxFetch
    /\ rangeFetches' = Append(rangeFetches, [waiters |-> rangeDelayer, outdated |-> FALSE])
    /\ rangeDelayer' = 0
    /\ lastBatch' = NoLast /\ destroyed' = NoneDestroyed /\ lastEvent' = NoEvent
    /\ UNCHANGED <<commentWidgets, commentInfos, pendingNewCommentCache, pendingEditsCache,
                   continueOnComments, commentingEnabled, inlineOriginal, torn>>
    /\ UNCHANGED <<tileVars, decoratorVars, computeVars, addVars, outdated, recordEvents, editorDisposables>>

\* A fetch of the scheduler resolves: each waiting caller updates the range
\* decorator with the result, the editor's cursor line and its selection
\* (the same update every time).
RangesResolved(results, cursors) ==
    /\ ready = <<>>
    /\ \E j \in 1..Len(rangeFetches), result \in results, cs \in cursors :
          /\ IF commentingEnabled
             THEN update(RangeInfos(result), cs[1], cs[2]) /\ countHandled(editorDisposables)
             ELSE UNCHANGED <<decoratorVars, editorDisposables>>
          /\ rangeFetches' = RemoveAt(rangeFetches, j)
          /\ lastEvent' = Record([NoEvent EXCEPT
                                     !.name = "rangesResolved",
                                     !.superseded = j < Len(rangeFetches),
                                     !.outdated = rangeFetches[j].outdated,
                                     !.applied = commentingEnabled,
                                     !.had = rangeFetches[j].waiters,
                                     !.updates = IF commentingEnabled
                                                 THEN rangeFetches[j].waiters ELSE 0])
    /\ lastBatch' = NoLast /\ destroyed' = NoneDestroyed
    /\ UNCHANGED <<commentWidgets, commentInfos, pendingNewCommentCache, pendingEditsCache,
                   continueOnComments, commentingEnabled, inlineOriginal, torn>>
    /\ UNCHANGED <<tileVars, computeVars, addVars, rangeDelayer, outdated, recordEvents>>

\* The selections the cursor listeners report: a selection of two lines and
\* an empty one.
ListenerSelections == {<<2, MkRange(1, 2)>>, <<1, MkRange(1, 1)>>}

\* A listener of registerEditorListeners runs: the mouse moves over a line
\* or leaves the text (onEditorMouseMove without a drag), or the cursor's
\* selection changes (onEditorChangeCursorSelection).  Every attached set
\* runs its listener; with the same arguments the later runs change nothing
\* the first has not.
OnEditorListener ==
    /\ ready = <<>>
    /\ editorDisposables.attached > 0
    /\ \/ \E h \in Lines \cup {NoLine} : updateHover(h)
       \/ \E cs \in ListenerSelections : updateSelection(cs[1], cs[2], cs[2].s = cs[2].e)
    /\ countHandled(editorDisposables)
    /\ lastBatch' = NoLast /\ destroyed' = NoneDestroyed /\ lastEvent' = NoEvent
    /\ UNCHANGED <<commentWidgets, commentInfos, pendingNewCommentCache, pendingEditsCache,
                   continueOnComments, commentingEnabled, inlineOriginal, torn>>
    /\ UNCHANGED <<tileVars, computeVars, addVars, rangeVars, outdated, recordEvents>>

\* The controller after its constructor: onModelChanged() has started the
\* first fetch.
ControllerStart ==
    /\ TileIdle /\ DecoratorIdle
    /\ commentWidgets = <<>> /\ commentInfos = <<>>
    /\ pendingNewCommentCache = EmptyCache /\ pendingEditsCache = EmptyCache
    /\ continueOnComments = NoContinueOn
    /\ commentingEnabled = TRUE /\ inlineOriginal = FALSE
    /\ computePromise = 1 /\ fetches = {1} /\ suspended = <<>> /\ ready = <<>>
    /\ addInProgress = FALSE /\ emptyThreadsToAddQueue = <<>>
    /\ templateRequests = <<>> /\ contextMenu = NoMenu /\ quickPick = NoMenu
    /\ addError = FALSE /\ lastAdd = NoAdd
    /\ rangeDelayer = 0 /\ rangeFetches = <<>>
    /\ outdated = {} /\ lastEvent = NoEvent
    /\ torn = [k \in Keys |-> NoHistory] /\ lastBatch = NoLast
    /\ destroyed = NoneDestroyed
    /\ editorDisposables = NoListeners

ControllerInit == ControllerStart /\ recordEvents = FALSE

\* The same start, with the history of the handlers kept.
RecordingInit == ControllerStart /\ recordEvents = TRUE

\* ------------------------------------------------------------------------
\* CommentController: adding a comment at a line
\* ------------------------------------------------------------------------
\* The state the add handlers work on; decs are the range decorator's claims.
\* error: the promise of the request that started the handler rejects.  nested:
\* the request being processed was taken from the queue, so that its promise
\* is held by nobody (l.948); unreported: such a promise rejected; failed: a
\* request found no provider.
AddState(widgets, inProgress, queue, requests, menu, pick, error) ==
    [widgets |-> widgets, addInProgress |-> inProgress, queue |-> queue,
     requests |-> requests, contextMenu |-> menu, quickPick |-> pick, error |-> error,
     nested |-> FALSE, unreported |-> FALSE, failed |-> FALSE]

LineRange(line) == [s |-> line, e |-> line]

RECURSIVE addOrToggleCommentAtLine(_, _, _, _)
RECURSIVE processNextThreadToAdd(_, _)
RECURSIVE addCommentAtLine(_, _, _, _)
RECURSIVE addCommentAtLine2(_, _, _, _)

\* addCommentAtLine2(range, ownerId): the template is requested and the queue
\* goes on at once.
addCommentAtLine2(st, decs, line, ownerId) ==
    processNextThreadToAdd(
        [st EXCEPT !.requests = createCommentThreadTemplate(st.requests, ownerId, line)],
        decs)

\* addCommentAtLine(range, e) with a document open; the thrown error ends the
\* request.
addCommentAtLine(st, decs, line, e) ==
    LET newCommentInfos == getMatchedCommentAction(decs, LineRange(line))
    IN  IF Len(newCommentInfos) = 0
        THEN [st EXCEPT !.addInProgress = FALSE, !.failed = TRUE,
                        !.error = (~st.nested) \/ st.error,
                        !.unreported = st.nested]
        ELSE IF Len(newCommentInfos) > 1
        THEN IF e
             THEN [st EXCEPT !.contextMenu = [range |-> LineRange(line),
                                              owners |-> newCommentInfos]]
             ELSE [st EXCEPT !.quickPick = [range |-> LineRange(line),
                                            owners |-> newCommentInfos]]
        ELSE addCommentAtLine2(st, decs, line, newCommentInfos[1])

\* processNextThreadToAdd()
processNextThreadToAdd(st, decs) ==
    IF st.queue = <<>>
    THEN [st EXCEPT !.addInProgress = FALSE]
    ELSE addOrToggleCommentAtLine(
             [st EXCEPT !.addInProgress = FALSE, !.queue = Tail(st.queue), !.nested = TRUE],
             decs, Head(st.queue)[1], Head(st.queue)[2])

\* addOrToggleCommentAtLine(commentRange, e): line is commentRange.endLineNumber
\* and e tells whether a mouse event came with the request.
addOrToggleCommentAtLine(st, decs, line, e) ==
    IF st.addInProgress
    THEN [st EXCEPT !.queue = Append(st.queue, <<line, e>>)]
    ELSE LET existingCommentsAtLine ==
                 {i \in 1..Len(st.widgets) : st.widgets[i].commentThread.line = line}
             allExpanded == \A i \in existingCommentsAtLine : st.widgets[i].expanded
         IN  IF existingCommentsAtLine # {}
             THEN processNextThreadToAdd(
                      [st EXCEPT !.addInProgress = TRUE,
                                 !.widgets = [i \in 1..Len(st.widgets) |->
                                     IF i \in existingCommentsAtLine
                                     THEN [st.widgets[i] EXCEPT !.expanded = ~allExpanded]
                                     ELSE st.widgets[i]]],
                      decs)
             ELSE addCommentAtLine([st EXCEPT !.addInProgress = TRUE], decs, line, e)

MaxQueue == 2

MaxTemplates == 2

\* The lines a comment is asked for: line 1 is in the range of one provider,
\* line 2 in the ranges of both, line 4 in no range.
AddLines == {1, 2, 4}

CurrentAddState ==
    AddState(commentWidgets, addInProgress, emptyThreadsToAddQueue, templateRequests,
             contextMenu, quickPick, FALSE)

\* What a handler that started with an add request (direct) or with an answer
\* of a menu has done, st being the state it leaves.
AddHistory(st, direct) ==
    [failed |-> st.failed, queued |-> st.failed /\ st.nested,
     reported |-> st.error,
     unchanged |-> /\ st.widgets = commentWidgets
                   /\ st.queue = emptyThreadsToAddQueue
                   /\ st.requests = templateRequests,
     cleared |-> ~st.addInProgress,
     direct |-> direct /\ ~addInProgress,
     whileOpen |-> contextMenu # NoMenu \/ quickPick # NoMenu,
     overQueue |-> emptyThreadsToAddQueue # <<>>]

\* The add handlers have run and left the state st.
addDone(st) ==
    /\ commentWidgets' = st.widgets
    /\ addInProgress' = st.addInProgress
    /\ emptyThreadsToAddQueue' = st.queue
    /\ templateRequests' = st.requests
    /\ contextMenu' = st.contextMenu
    /\ quickPick' = st.quickPick
    /\ addError' = st.error
    /\ lastBatch' = NoLast /\ destroyed' = NoneDestroyed
    /\ lastEvent' = NoEvent /\ UNCHANGED <<rangeVars, outdated, recordEvents, editorDisposables>>
    /\ UNCHANGED <<commentInfos, pendingNewCommentCache, pendingEditsCache,
                   continueOnComments, commentingEnabled, inlineOriginal, torn>>
    /\ UNCHANGED <<tileVars, decoratorVars, computeVars>>

\* A request to add a comment at a line (a click on the gutter, a command).
AddOrToggleCommentAtLine ==
    /\ ready = <<>>
    /\ Len(emptyThreadsToAddQueue) < MaxQueue
    /\ Len(templateRequests) + Len(emptyThreadsToAddQueue) < MaxTemplates
    /\ \E line \in AddLines, e \in BOOLEAN :
          LET st == addOrToggleCommentAtLine(CurrentAddState, commentingRangeDecorations,
                                             line, e)
          IN  addDone(st) /\ lastAdd' = AddHistory(st, TRUE)

\* The context menu is dismissed: onHide.
ContextMenuDismissed ==
    /\ ready = <<>>
    /\ contextMenu # NoMenu
    /\ LET st == [CurrentAddState EXCEPT !.contextMenu = NoMenu, !.addInProgress = FALSE]
       IN  addDone(st) /\ lastAdd' = AddHistory(st, FALSE)

\* A provider is chosen in the context menu.  The menu hides and the action
\* runs; which comes first is the menu service's choice.
ContextMenuActionRun ==
    /\ ready = <<>>
    /\ contextMenu # NoMenu
    /\ Len(templateRequests) + Len(emptyThreadsToAddQueue) < MaxTemplates
    /\ \E k \in 1..Len(contextMenu.owners), hideFirst \in BOOLEAN :
          LET st == IF hideFirst
                    THEN addCommentAtLine2(
                             [CurrentAddState EXCEPT !.contextMenu = NoMenu,
                                                     !.addInProgress = FALSE],
                             commentingRangeDecorations, contextMenu.range.e,
                             contextMenu.owners[k])
                    ELSE [addCommentAtLine2(
                              [CurrentAddState EXCEPT !.contextMenu = NoMenu],
                              commentingRangeDecorations, contextMenu.range.e,
                              contextMenu.owners[k])
                          EXCEPT !.addInProgress = FALSE]
          IN  addDone(st) /\ lastAdd' = AddHistory(st, FALSE)

\* The quick pick resolves, with a provider (k > 0) or without one.
QuickPickResolved ==
    /\ ready = <<>>
    /\ quickPick # NoMenu
    /\ Len(templateRequests) + Len(emptyThreadsToAddQueue) < MaxTemplates
    /\ \E k \in 0..Len(quickPick.owners) :
          LET st == IF k = 0
                    THEN [CurrentAddState EXCEPT !.quickPick = NoMenu,
                                                 !.addInProgress = FALSE]
                    ELSE [addCommentAtLine2(
                              [CurrentAddState EXCEPT !.quickPick = NoMenu],
                              commentingRangeDecorations, quickPick.range.e,
                              quickPick.owners[k])
                          EXCEPT !.addInProgress = FALSE]
          IN  addDone(st) /\ lastAdd' = AddHistory(st, FALSE)

\* A provider answers a template request: it creates the thread at the line
\* under an id it does not use yet and reports it as added.
TemplateCreated ==
    /\ ready = <<>>
    /\ (commentingEnabled /\ computePromise # 0) => Len(suspended) < MaxSuspended
    /\ \E r \in 1..Len(templateRequests) :
          \E tid \in ThreadIdsOf(templateRequests[r].owner) :
              /\ \A i \in 1..Len(commentWidgets) :
                    WidgetKey(commentWidgets[i]) # <<templateRequests[r].owner, tid>>
              /\ didUpdateCommentThreads(
                     Batch(templateRequests[r].owner,
                           <<Thread(tid, 0, templateRequests[r].line)>>, <<>>, <<>>, <<>>),
                     RemoveAt(templateRequests, r))
    /\ UNCHANGED <<rangeVars, outdated, recordEvents, editorDisposables>>
    /\ UNCHANGED <<commentInfos, pendingNewCommentCache, pendingEditsCache,
                   commentingEnabled, inlineOriginal, torn>>
    /\ UNCHANGED <<infos, lastHover, lastSelection, lastSelectionCursor,
                   commentingRangeDecorations>>
    /\ UNCHANGED <<tileVars, computePromise, fetches, ready, addInProgress,
                   emptyThreadsToAddQueue, contextMenu, quickPick, addError, lastAdd>>

\* ------------------------------------------------------------------------
\* Specification Spec: drafts across teardown and redisplay
\* ------------------------------------------------------------------------
\* What the fetches resolve with here: no provider, one provider with a
\* submitted thread or with a template, two providers with a submitted thread
\* each.
DraftFetchResults ==
    {<<>>,
     <<CommentInfo("o1", <<ProviderThread("o1", "t1", 1)>>)>>,
     <<CommentInfo("o1", <<ProviderThread("o1", "t1", 0)>>)>>,
     <<CommentInfo("o1", <<ProviderThread("o1", "t1", 1)>>),
       CommentInfo("o2", <<ProviderThread("o2", "t1", 1)>>)>>}

DraftBatches ==
    {Batch("o1", <<ProviderThread("o1", "t1", 1)>>, <<>>, <<>>, <<>>),
     Batch("o1", <<>>, <<ProviderThread("o1", "t1", 1)>>, <<>>, <<>>),
     Batch("o2", <<ProviderThread("o2", "t1", 1)>>, <<>>, <<>>, <<>>)}

Next ==
    \/ EditNewComment
    \/ OnModelChanged
    \/ OnDidDeleteDataProvider
    \/ ComputeResolved(DraftFetchResults)
    \/ OnDidSetResourceCommentInfos(DraftFetchResults)
    \/ OnDidUpdateCommentThreads(DraftBatches)
    \/ ResumeBatch
    \/ OnDidChangeCommentingEnabled

Spec == ControllerInit /\ [][Next]_vars

\* What removeCommentWidgetsAndStoreCache has to leave in the draft store for
\* a destroyed widget.
Kept(d) ==
    IF d.newComment # NoText /\ d.newComment # d.lastCommentBody THEN d.newComment
    ELSE NoText

\* C6 (as stated): a widget displayed for a thread whose last torn-down widget
\* held unsent text starts with exactly that text as its draft.
C6_DraftRoundTrip ==
    \A i \in 1..Len(commentWidgets) :
        commentWidgets[i].carried.text # NoText
            => commentWidgets[i].pendingComment = commentWidgets[i].carried.text

\* C6 (amended): a widget displayed for a thread whose last torn-down widget
\* held unsent text starts with exactly that text as its draft, unless a
\* data-provider-removed signal for the owner (or for all owners) was handled
\* between the teardown and the display.
C6_DraftRoundTripUnlessEvicted ==
    \A i \in 1..Len(commentWidgets) :
        (commentWidgets[i].carried.text # NoText /\ ~commentWidgets[i].carried.evicted)
            => commentWidgets[i].pendingComment = commentWidgets[i].carried.text

\* The thread with last comment "a" whose widget held "ab" when it was torn
\* down is displayed again, with "ab" as its draft.
C6_Witness ==
    \E i \in 1..Len(commentWidgets) :
        /\ commentWidgets[i].commentThread.lastCommentBody = "a"
        /\ commentWidgets[i].carried = [text |-> "ab", evicted |-> FALSE]
        /\ commentWidgets[i].pendingComment = "ab"

\* C7: right after a teardown by removeCommentWidgetsAndStoreCache (model
\* change or setComments) the new-comment draft store has an entry for the
\* thread of a destroyed widget if and only if the widget's text was non-empty
\* and differed from the last comment's body, and the entry is that text; an
\* entry that was there before is gone otherwise.
C7_StoredIffUnsent ==
    \A k \in Keys :
        destroyed[k].cause \in {"model", "setComments"}
            => pendingNewCommentCache[k] = Kept(destroyed[k])

\* A widget whose text had been reset to the last comment's body "a" was torn
\* down while the store still had the draft "ab" for it, and the entry is gone.
C7_Witness ==
    \E k \in Keys :
        /\ destroyed[k].cause \in {"model", "setComments"}
        /\ destroyed[k].newComment = "a" /\ destroyed[k].lastCommentBody = "a"
        /\ destroyed[k].had = "ab"
        /\ pendingNewCommentCache[k] = NoText

\* C8: right after a widget with unsent text is destroyed by a model change,
\* by setComments or by commenting being disabled, the draft store has that
\* text under the widget's (owner, threadId).
C8_UnsentTextNeverLost ==
    \A k \in Keys :
        (destroyed[k].cause # "" /\ Kept(destroyed[k]) # NoText)
            => pendingNewCommentCache[k] = destroyed[k].newComment

\* ------------------------------------------------------------------------
\* Specification SpecBatch: thread-update batches against the live widgets
\* ------------------------------------------------------------------------
\* What the fetches resolve with here: no provider, one provider with a
\* template or a submitted thread or two templates on one line, two providers.
BatchFetchResults ==
    {<<>>,
     <<CommentInfo("o1", <<ProviderThread("o1", "t1", 0)>>)>>,
     <<CommentInfo("o1", <<ProviderThread("o1", "t1", 1)>>)>>,
     <<CommentInfo("o1", <<ProviderThread("o1", "t1", 0), ProviderThread("o1", "t2", 0)>>)>>,
     <<CommentInfo("o1", <<ProviderThread("o1", "t1", 1)>>),
       CommentInfo("o2", <<ProviderThread("o2", "t1", 0)>>)>>}

BatchNext ==
    \/ OnDidSetDataProvider
    \/ ComputeResolved(BatchFetchResults)
    \/ OnDidUpdateCommentThreads(BatchInputs)
    \/ ResumeBatch
    \/ OnDidChangeCommentingEnabled
    \/ ChangeInlineOriginal

SpecBatch == ControllerInit /\ [][BatchNext]_vars

\* The live widgets of a thread (owner, threadId).
WidgetsOf(owner, threadId) ==
    {i \in 1..Len(commentWidgets) : WidgetKey(commentWidgets[i]) = <<owner, threadId>>}

\* The last step processed a batch that removes T and adds T' of the same
\* thread id, and one live widget showed T when it started.
ReplacedOne ==
    /\ lastBatch.batch # NoBatch
    /\ lastBatch.batch.removed[1].threadId = lastBatch.batch.added[1].threadId
    /\ lastBatch.before = 1

AddInit ==
    /\ TileIdle
    /\ infos = RangeInfos(<<CommentInfo("o1", <<>>), CommentInfo("o2", <<>>)>>)
    /\ lastHover = -1 /\ lastSelection = NoRange /\ lastSelectionCursor = NoCursor
    /\ glyphLines = {}
    /\ commentingRangeDecorations = doUpdate(infos, -1, NoRange, NoRange, NoCursor, {})
    /\ commentWidgets = <<>>
    /\ commentInfos = StoredInfos(<<CommentInfo("o1", <<>>), CommentInfo("o2", <<>>)>>)
    /\ pendingNewCommentCache = EmptyCache /\ pendingEditsCache = EmptyCache
    /\ continueOnComments = NoContinueOn
    /\ commentingEnabled = TRUE /\ inlineOriginal = FALSE
    /\ computePromise = 0 /\ fetches = {} /\ suspended = <<>> /\ ready = <<>>
    /\ addInProgress = FALSE /\ emptyThreadsToAddQueue = <<>>
    /\ templateRequests = <<>> /\ contextMenu = NoMenu /\ quickPick = NoMenu
    /\ addError = FALSE /\ lastAdd = NoAdd
    /\ rangeDelayer = 0 /\ rangeFetches = <<>>
    /\ outdated = {} /\ lastEvent = NoEvent /\ recordEvents = FALSE
    /\ torn = [k \in Keys |-> NoHistory] /\ lastBatch = NoLast
    /\ destroyed = NoneDestroyed
    /\ editorDisposables = OneListenerSet

\* The providers delete threads they created.
AddBatches ==
    UNION {{Batch(o, <<>>, <<ProviderThread(o, tid, 0)>>, <<>>, <<>>) :
               tid \in ThreadIdsOf(o)} : o \in Owners}

AddNext ==
    \/ AddOrToggleCommentAtLine
    \/ ContextMenuDismissed
    \/ ContextMenuActionRun
    \/ QuickPickResolved
    \/ TemplateCreated
    \/ OnDidUpdateCommentThreads(AddBatches)

SpecAdd == AddInit /\ [][AddNext]_vars

\* The template requests for a line that no provider has answered yet.
RequestsAt(line) == {r \in 1..Len(templateRequests) : templateRequests[r].line = line}

\* C9: add requests for a line issued before the thread of the first one is
\* displayed lead to one template request for that line: at no time are two
\* template requests for the same line waiting for their thread.
C9_OneTemplatePerLine ==
    \A line \in AddLines : Cardinality(RequestsAt(line)) <= 1

\* C11: a request to add a comment where getMatchedCommentAction finds no
\* provider ends with the error reported to its caller (the promise of the
\* request rejects) and with the add-in-progress flag cleared; when the
\* request was made directly it asks for no template and leaves the widgets
\* and the queue as they were.
C11_NoProviderFailsFast ==
    lastAdd.failed =>
        /\ lastAdd.reported
        /\ lastAdd.cleared
        /\ (~lastAdd.queued => lastAdd.unchanged)

\* C12: a request is processed on arrival only when no add is in progress: no
\* context menu or quick pick of an earlier request is open, and no earlier
\* request waits in the queue (it would be overtaken).
C12_AddsSerialized ==
    lastAdd.direct => (~lastAdd.whileOpen /\ ~lastAdd.overQueue)

\* C13: once the add in progress has ended (the flag is cleared and no menu
\* or pick is open) no request is left in the queue.  Every handler runs to
\* its end in one step, so a request that is left is processed only when a
\* further add request comes.
C13_QueueDrainedWhenIdle ==
    (~addInProgress /\ contextMenu = NoMenu /\ quickPick = NoMenu)
        => emptyThreadsToAddQueue = <<>>

\* ------------------------------------------------------------------------
\* Specification SpecStores: the two draft stores and the removal of a provider
\* ------------------------------------------------------------------------
\* Two providers with a submitted thread each.
StoreFetchResults ==
    {<<CommentInfo("o1", <<ProviderThread("o1", "t1", 1)>>),
       CommentInfo("o2", <<ProviderThread("o2", "t1", 1)>>)>>}

StoreTexts == {"ab"}

\* The user types a draft, or the edit of a comment, in a widget that has none.
TypeDraft ==
    \E i \in 1..Len(commentWidgets) :
        /\ commentWidgets[i].newComment = NoText
        /\ EditNewComment
        /\ commentWidgets'[i].newComment \in StoreTexts

TypeEdit ==
    \E i \in 1..Len(commentWidgets) :
        /\ commentWidgets[i].edits = NoText
        /\ EditComment
        /\ commentWidgets'[i].edits \in StoreTexts

StoresNext ==
    \/ TypeDraft
    \/ TypeEdit
    \/ OnModelChanged
    \/ OnDidDeleteDataProvider
    \/ ComputeResolved(StoreFetchResults)

SpecStores == RecordingInit /\ [][StoresNext]_vars

\* The signal was about this key's owner.
Removed(k) == lastEvent.owner = "" \/ k[1] = lastEvent.owner

\* C14: right after the data-provider-removed signal for an owner is handled,
\* neither draft store has an entry of that owner and the entries of the other
\* owners are the ones the stores had before; after a signal without an owner
\* both stores are empty.
C14_ProviderRemovedClearsStores ==
    lastEvent.name = "deleteDataProvider" =>
        \A k \in Keys :
            IF Removed(k)
            THEN pendingNewCommentCache[k] = NoText /\ pendingEditsCache[k] = NoText
            ELSE /\ pendingNewCommentCache[k] = lastEvent.newBefore[k]
                 /\ pendingEditsCache[k] = lastEvent.editsBefore[k]

\* The signal for o1 was handled when both stores had a draft of o1 and one
\* of o2: those of o1 are gone, those of o2 are still there.
C14_Witness ==
    /\ lastEvent.name = "deleteDataProvider" /\ lastEvent.owner = "o1"
    /\ lastEvent.newBefore[<<"o1", "t1">>] = "ab"
    /\ lastEvent.editsBefore[<<"o1", "t1">>] = "ab"
    /\ pendingNewCommentCache[<<"o1", "t1">>] = NoText
    /\ pendingEditsCache[<<"o1", "t1">>] = NoText
    /\ pendingNewCommentCache[<<"o2", "t1">>] = "ab"
    /\ pendingEditsCache[<<"o2", "t1">>] = "ab"

\* C26: once the data-provider-removed signal for an owner and the recompute
\* it starts have both completed, neither draft store has an entry of that
\* owner, also when widgets of the owner with unsent text were live at the
\* signal.  Checked where the recompute resolves right after the signal.
C26_NoEntryAfterRemovalRecompute ==
    (lastEvent.name = "computeResolved" /\ lastEvent.follows = "deleteDataProvider") =>
        \A k \in Keys :
            Removed(k) => pendingNewCommentCache[k] = NoText /\ pendingEditsCache[k] = NoText

\* ------------------------------------------------------------------------
\* Specification SpecFetch: the fetches and what waits for them
\* ------------------------------------------------------------------------
FetchResults == {<<>>, <<CommentInfo("o1", <<ProviderThread("o1", "t1", 1)>>)>>}

FetchBatches == {Batch("o1", <<ProviderThread("o1", "t2", 1)>>, <<>>, <<>>, <<>>)}

FetchCursors == {<<1, MkRange(1, 1)>>}

FetchNext ==
    \/ OnModelChanged
    \/ OnDidSetDataProvider
    \/ ComputeResolved(FetchResults)
    \/ OnDidUpdateCommentThreads(FetchBatches)
    \/ ResumeBatch
    \/ OnDidChangeCommentingEnabled
    \/ OnDidChangeModelContent
    \/ RangeDelayElapsed
    \/ RangesResolved(FetchResults, FetchCursors)

SpecFetch == RecordingInit /\ [][FetchNext]_vars

\* C15: at most one fetch of beginCompute and at most one fetch of the range
\* scheduler is in flight at any time.
C15_OneFetchPerPurpose ==
    Cardinality(fetches) <= 1 /\ Len(rangeFetches) <= 1

\* C16: the result of a fetch that resolves while a newer fetch of the same
\* purpose is in flight is not applied (no setComments with it, no update of
\* the range decorator with it).
C16_SupersededResultDiscarded ==
    ~(/\ lastEvent.name \in {"computeResolved", "rangesResolved"}
      /\ lastEvent.superseded
      /\ lastEvent.applied)

\* C17: a fetch result or a thread-update batch of a document the editor has
\* left since is not applied.
C17_AppliedOnlyForCurrentDocument ==
    ~(/\ lastEvent.name \in {"computeResolved", "rangesResolved", "batch"}
      /\ lastEvent.outdated
      /\ lastEvent.applied)

\* C19: no thread-update batch is applied to the widgets while a fetch of
\* beginCompute that was in flight when the batch arrived still is.
C19_BatchWaitsForComputations ==
    ~(lastEvent.name = "batch" /\ lastEvent.running)

\* C20: while commenting is disabled there is no live widget.
C20_NoWidgetWhileDisabled ==
    ~commentingEnabled => commentWidgets = <<>>

\* C27: a run of k >= 1 content changes, each within the delay started by
\* the one before, causes one range fetch, issued when the delay of the last
\* one has elapsed, and one replacement of the range decorator's snapshot
\* with one rerun of the tiling.  had is k, the number of content changes
\* the fetch was issued for; the fetch resolves with commenting enabled.
C27_OneFetchOneUpdatePerRun ==
    (lastEvent.name = "rangesResolved" /\ lastEvent.applied) => lastEvent.updates = 1

\* ------------------------------------------------------------------------
\* Specification SpecPhases: batches that name a thread in several lists
\* ------------------------------------------------------------------------
PhaseFetchResults ==
    {<<CommentInfo("o1", <<>>)>>,
     <<CommentInfo("o1", <<ProviderThread("o1", "t1", 1)>>)>>}

PendingThread(owner, line) == [owner |-> owner, line |-> line]

\* Thread t1 of o1 added as a template and changed to submitted; the same with
\* the submitted thread removed and a pending thread; t1 added; t1 removed.
PhaseBatches ==
    {Batch("o1", <<ProviderThread("o1", "t1", 0)>>, <<>>,
           <<ProviderThread("o1", "t1", 1)>>, <<>>),
     Batch("o1", <<ProviderThread("o1", "t1", 0)>>, <<ProviderThread("o1", "t1", 1)>>,
           <<ProviderThread("o1", "t1", 1)>>, <<PendingThread("o1", 2)>>),
     Batch("o1", <<ProviderThread("o1", "t1", 1)>>, <<>>, <<>>, <<>>),
     Batch("o1", <<>>, <<ProviderThread("o1", "t1", 0)>>, <<>>, <<>>)}

\* A batch arrives while fewer than MaxTemplates template requests are out.
PhaseBatch ==
    /\ Len(templateRequests) < MaxTemplates
    /\ OnDidUpdateCommentThreads(PhaseBatches)

PhasesNext ==
    \/ OnDidSetDataProvider
    \/ ComputeResolved(PhaseFetchResults)
    \/ PhaseBatch
    \/ ResumeBatch
    \/ TemplateCreated

SpecPhases == RecordingInit /\ [][PhasesNext]_vars

\* The thread of list threads that has the id of thread T, NoBatch if none.
Named(threads, T) ==
    LET S == {j \in 1..Len(threads) : threads[j].threadId = T.threadId}
    IN  IF S = {} THEN NoBatch ELSE threads[CHOOSE j \in S : TRUE]

\* C18: the phases of a batch run in the order removed, changed, added,
\* pending.  For the first added thread T, with at most one widget of its
\* (owner, threadId) before the batch: if T is also in removed, or had no
\* widget, then changed found no widget of T and added made one that shows T;
\* if T had a widget and is in changed only, the widget shows the changed
\* data; and the template of every pending thread has been requested.
C18_PhasesInOrder ==
    (lastEvent.name = "batch" /\ lastEvent.batch.added # <<>> /\ lastEvent.had <= 1
        /\ ~inlineOriginal) =>
        LET e == lastEvent.batch
            T == e.added[1]
            ws == WidgetsOf(e.owner, T.threadId)
        IN  /\ IF Named(e.removed, T) # NoBatch \/ lastEvent.had = 0
               THEN ws # {} /\ \A i \in ws : commentWidgets[i].commentThread = T
               ELSE Named(e.changed, T) # NoBatch =>
                        \A i \in ws : commentWidgets[i].commentThread = Named(e.changed, T)
            /\ \A j \in 1..Len(e.pending) :
                   \E r \in 1..Len(templateRequests) : templateRequests[r] = e.pending[j]

\* A batch with thread t1 in removed, changed (submitted) and added (template)
\* and with a pending thread was applied when t1 had a widget: the widget
\* shows the added thread and the template request is out.
C18_Witness ==
    /\ lastEvent.name = "batch" /\ lastEvent.had = 1
    /\ lastEvent.batch.removed # <<>> /\ lastEvent.batch.changed # <<>>
    /\ lastEvent.batch.added # <<>> /\ lastEvent.batch.pending # <<>>
    /\ \E i \in 1..Len(commentWidgets) :
          /\ commentWidgets[i].commentThread = lastEvent.batch.added[1]
          /\ commentWidgets[i].commentThread # lastEvent.batch.changed[1]
    /\ \E r \in 1..Len(templateRequests) :
          templateRequests[r] = lastEvent.batch.pending[1]

\* ------------------------------------------------------------------------
\* Specification SpecLive: the live widgets under batches, recomputes and
\* model changes
\* ------------------------------------------------------------------------
\* The text of a continue-on draft; no thread and no cache entry has it.
ContinueTexts == {"b"}

\* The comment service registers a continue-on draft for a range of the
\* document (the registry is the comment service's).
RegisterContinueOnComment(owners) ==
    /\ ready = <<>>
    /\ \E o \in owners, text \in ContinueTexts :
          /\ continueOnComments[<<o, ThreadLine(o)>>] = NoText
          /\ continueOnComments' = [continueOnComments EXCEPT ![<<o, ThreadLine(o)>>] = text]
    /\ lastBatch' = NoLast /\ destroyed' = NoneDestroyed
    /\ lastEvent' = NoEvent /\ UNCHANGED <<rangeVars, outdated, recordEvents, editorDisposables>>
    /\ UNCHANGED <<commentWidgets, commentInfos, pendingNewCommentCache, pendingEditsCache,
                   commentingEnabled, inlineOriginal, torn>>
    /\ UNCHANGED <<tileVars, decoratorVars, computeVars, addVars>>

LiveFetchResults ==
    {<<>>, <<CommentInfo("o1", <<ProviderThread("o1", "t1", 1)>>)>>}

\* Provider o1 adds a template and a submitted thread on the same line, and
\* removes and changes them.
LiveBatches ==
    {Batch("o1", <<ProviderThread("o1", "t2", 0)>>, <<>>, <<>>, <<>>),
     Batch("o1", <<ProviderThread("o1", "t1", 1)>>, <<>>, <<>>, <<>>),
     Batch("o1", <<>>, <<ProviderThread("o1", "t1", 1)>>, <<>>, <<>>),
     Batch("o1", <<>>, <<>>, <<ProviderThread("o1", "t2", 1)>>, <<>>)}

LiveNext ==
    \/ OnModelChanged
    \/ ComputeResolved(LiveFetchResults)
    \/ OnDidUpdateCommentThreads(LiveBatches)
    \/ ResumeBatch
    \/ TypeDraft
    \/ RegisterContinueOnComment({"o1"})

SpecLive == RecordingInit /\ [][LiveNext]_vars

\* The batch that the last step applied, when it holds one thread and
\* nothing else.
OnlyAdded == lastEvent.name = "batch" /\ Len(lastEvent.batch.added) = 1
             /\ lastEvent.batch.removed = <<>> /\ lastEvent.batch.changed = <<>>

OnlyRemoved == lastEvent.name = "batch" /\ Len(lastEvent.batch.removed) = 1
               /\ lastEvent.batch.added = <<>> /\ lastEvent.batch.changed = <<>>

OnlyChanged == lastEvent.name = "batch" /\ Len(lastEvent.batch.changed) = 1
               /\ lastEvent.batch.added = <<>> /\ lastEvent.batch.removed = <<>>

\* The indices of the widgets of a widget list that show a thread of this
\* owner and thread id.
IndicesOf(widgets, owner, threadId) ==
    {i \in 1..Len(widgets) : WidgetKey(widgets[i]) = <<owner, threadId>>}

\* C21: in every reachable state the live widgets hold at most one widget
\* per (owner, threadId), whatever batches, recomputes and model changes
\* have happened.
C21_OneWidgetPerThread ==
    \A i, j \in 1..Len(commentWidgets) :
        WidgetKey(commentWidgets[i]) = WidgetKey(commentWidgets[j]) => i = j

\* An added thread arrived for a thread that had its widget, and two threads
\* of the owner are live.
C21_Witness ==
    /\ OnlyAdded
    /\ lastEvent.had = 1
    /\ Len(commentWidgets) = 2

\* The widgets of a widget list that were created locally (handle -1) for
\* this owner on the line of this thread.
LocalAt(widgets, owner, thread) ==
    {i \in 1..Len(widgets) :
        /\ widgets[i].owner = owner
        /\ widgets[i].commentThread.commentThreadHandle = -1
        /\ widgets[i].commentThread.line = thread.line}

\* The last step applied a batch that adds one thread, no widget showed that
\* thread, and a locally created widget of the owner was on its range.
ConfirmsLocal ==
    /\ OnlyAdded
    /\ IndicesOf(lastEvent.widgets, lastEvent.owner, lastEvent.batch.added[1].threadId) = {}
    /\ LocalAt(lastEvent.widgets, lastEvent.owner, lastEvent.batch.added[1]) # {}

\* C22: an added thread of the owner and range of a live widget with handle
\* -1, and with no widget of its own (owner, threadId), updates that widget
\* in place: the number of live widgets is unchanged, no widget is created.
C22_LocalWidgetUpdatedInPlace ==
    ConfirmsLocal =>
        /\ Len(commentWidgets) = Len(lastEvent.widgets)
        /\ \E i \in LocalAt(lastEvent.widgets, lastEvent.owner, lastEvent.batch.added[1]) :
              commentWidgets = [lastEvent.widgets EXCEPT
                                   ![i].commentThread = lastEvent.batch.added[1]]

\* A submitted thread took over a locally created widget that held a draft.
C22_Witness ==
    /\ ConfirmsLocal
    /\ \E i \in 1..Len(commentWidgets) :
          /\ commentWidgets[i].commentThread = lastEvent.batch.added[1]
          /\ commentWidgets[i].commentThread.commentThreadHandle # -1
          /\ commentWidgets[i].newComment # NoText

\* C23: processing a changed thread creates and destroys no widget: the live
\* widgets are the same before and after, the widget of the thread's (owner,
\* threadId) shows the updated thread data and keeps its unsent draft, and
\* with no such widget nothing changes.
C23_ChangedUpdatesInPlace ==
    OnlyChanged =>
        LET thread == lastEvent.batch.changed[1]
            before == lastEvent.widgets
            matched == IndicesOf(before, lastEvent.owner, thread.threadId)
        IN  /\ Len(commentWidgets) = Len(before)
            /\ \A i \in 1..Len(before) :
                  commentWidgets[i] = IF i \in matched
                                      THEN [before[i] EXCEPT !.commentThread = thread]
                                      ELSE before[i]
            /\ pendingNewCommentCache = lastEvent.newBefore
            /\ pendingEditsCache = lastEvent.editsBefore

\* A changed thread reached a widget that held a draft and showed other
\* thread data, next to another widget.
C23_Witness ==
    /\ OnlyChanged
    /\ Len(lastEvent.widgets) = 2
    /\ \E i \in IndicesOf(lastEvent.widgets, lastEvent.owner,
                          lastEvent.batch.changed[1].threadId) :
          /\ lastEvent.widgets[i].commentThread # lastEvent.batch.changed[1]
          /\ lastEvent.widgets[i].newComment # NoText
          /\ commentWidgets[i].newComment = lastEvent.widgets[i].newComment

\* The last step applied a batch that removes one thread, and no widget
\* showed a thread of that owner and (non-empty) thread id.
RemovesUnknown ==
    /\ OnlyRemoved
    /\ lastEvent.batch.removed[1].threadId # ""
    /\ IndicesOf(lastEvent.widgets, lastEvent.owner, lastEvent.batch.removed[1].threadId) = {}

\* C24: a removed thread that matches no live widget, and a batch for an
\* owner without comment info for the document, leave the live widgets and
\* both draft stores as they were (the handler has no throwing path for
\* them).
C24_UnmatchedIsNoOp ==
    (RemovesUnknown \/ lastEvent.name = "batchIgnored") =>
        /\ commentWidgets = lastEvent.widgets
        /\ pendingNewCommentCache = lastEvent.newBefore
        /\ pendingEditsCache = lastEvent.editsBefore

\* A thread that no widget shows was removed while another widget was live
\* and a draft was stored.
C24_Witness ==
    /\ RemovesUnknown
    /\ lastEvent.widgets # <<>>
    /\ pendingNewCommentCache # EmptyCache

\* The last step applied a batch that adds one thread for which a new widget
\* is created: no widget showed the thread, no locally created widget was on
\* its range, and the editor is not the original side of an inline diff.
CreatesWidget ==
    /\ OnlyAdded
    /\ IndicesOf(lastEvent.widgets, lastEvent.owner, lastEvent.batch.added[1].threadId) = {}
    /\ LocalAt(lastEvent.widgets, lastEvent.owner, lastEvent.batch.added[1]) = {}
    /\ ~inlineOriginal

\* C25: the widget created for an added thread starts with the pending-cache
\* entry of (owner, threadId) if there is one, and otherwise with the
\* continue-on draft registered for the owner and range, which is then gone
\* from the registry; it starts without a draft when there is neither.
C25_InitialDraftByPriority ==
    CreatesWidget =>
        LET thread == lastEvent.batch.added[1]
            cached == lastEvent.newBefore[<<lastEvent.owner, thread.threadId>>]
            continued == lastEvent.continueOn[<<lastEvent.owner, thread.line>>]
            created == IndicesOf(commentWidgets, lastEvent.owner, thread.threadId)
        IN  /\ Len(commentWidgets) = Len(lastEvent.widgets) + 1
            /\ created # {}
            /\ \A i \in created :
                  commentWidgets[i].pendingComment
                      = IF cached # NoText THEN cached ELSE continued
            /\ (cached = NoText /\ continued # NoText) =>
                  continueOnComments[<<lastEvent.owner, thread.line>>] = NoText

\* A widget was created while both a cache entry and a continue-on draft
\* were there for it.
C25_Witness ==
    /\ CreatesWidget
    /\ lastEvent.newBefore[<<lastEvent.owner, lastEvent.batch.added[1].threadId>>] # NoText
    /\ lastEvent.continueOn[<<lastEvent.owner, lastEvent.batch.added[1].line>>] # NoText

\* ------------------------------------------------------------------------
\* Specification SpecFailure: fetches of beginCompute that reject
\* ------------------------------------------------------------------------
FailureFetchResults == {<<CommentInfo("o1", <<ProviderThread("o1", "t1", 1)>>)>>}

FailureBatches == {Batch("o1", <<ProviderThread("o1", "t2", 1)>>, <<>>, <<>>, <<>>),
                   Batch("o1", <<>>, <<ProviderThread("o1", "t1", 1)>>, <<>>, <<>>)}

FailureNext ==
    \/ OnModelChanged
    \/ OnDidSetDataProvider
    \/ ComputeResolved(FailureFetchResults)
    \/ ComputeFailed
    \/ OnDidUpdateCommentThreads(FailureBatches)
    \/ ResumeBatch

SpecFailure == RecordingInit /\ [][FailureNext]_vars

\* C33: a failed fetch of beginCompute does not block later reconciliation:
\* once the failure is handled no computation is recorded as in flight
\* (_computePromise is null unless a newer fetch has replaced it), the
\* widgets and _commentInfos are as before, and a batch that arrives with no
\* fetch in flight is applied.
C33_FailedFetchDoesNotBlock ==
    /\ (lastEvent.name = "computeFailed" /\ ~lastEvent.superseded) =>
          /\ computePromise = 0
          /\ commentWidgets = lastEvent.widgets
    /\ fetches = {} => lastEvent.name # "batchRejected"

\* The controller with its editor listeners: fetches that find a provider
\* with ranges or none, commenting switched off and on, model changes,
\* content changes and the listeners themselves.
ListenerFetchResults == {<<>>, <<CommentInfo("o1", <<ProviderThread("o1", "t1", 1)>>)>>}

ListenerCursors == {<<1, MkRange(1, 1)>>}

ListenersNext ==
    \/ OnModelChanged
    \/ ComputeResolved(ListenerFetchResults)
    \/ OnDidSetResourceCommentInfos(ListenerFetchResults)
    \/ OnDidChangeCommentingEnabled
    \/ OnDidChangeModelContent
    \/ RangeDelayElapsed
    \/ RangesResolved(ListenerFetchResults, ListenerCursors)
    \/ OnEditorListener

SpecListeners == ControllerInit /\ [][ListenersNext]_vars

\* C32: at most one set of editor mouse and cursor listeners is attached at
\* any time, and the set attached is the one _editorDisposables holds: no
\* set is attached while an earlier one has not been disposed.
C32_OneListenerSet ==
    /\ editorDisposables.attached <= 1
    /\ editorDisposables.attached = editorDisposables.held

\* One set of listeners is attached while the decorator has claims, and a
\* mouse listener of the set has run.
C32_Witness ==
    /\ editorDisposables = OneListenerSet
    /\ commentingEnabled
    /\ Len(commentingRangeDecorations) > 0
    /\ lastHover # -1

\* The controller with its listeners and thread batches: provider o1 has the
\* commenting range of lines 1-2 and no thread at first; later it adds a
\* thread on line 1, or removes it.
GlyphFetchResults == {<<CommentInfo("o1", <<>>)>>}

GlyphBatches ==
    {Batch("o1", <<ProviderThread("o1", "t1", 1)>>, <<>>, <<>>, <<>>),
     Batch("o1", <<>>, <<ProviderThread("o1", "t1", 1)>>, <<>>, <<>>)}

GlyphNext ==
    \/ OnModelChanged
    \/ ComputeResolved(GlyphFetchResults)
    \/ OnDidUpdateCommentThreads(GlyphBatches)
    \/ ResumeBatch
    \/ OnEditorListener

SpecGlyph == RecordingInit /\ [][GlyphNext]_vars

\* C35: no line carries both a comment thread glyph and a hover-emphasis
\* commenting-range decoration, also right after a batch has added a thread
\* on the emphasised line.
C35_NoHoverOnThreadLine ==
    \A i \in 1..Len(commentingRangeDecorations) :
        commentingRangeDecorations[i].options = Hover =>
            LinesOf(DecRange(commentingRangeDecorations[i])) \cap glyphLines = {}

====
